---------------------------- MODULE Spec2Model ----------------------------
(***************************************************************************)
(* Keyword-intelligence pipeline of szztrading/v2:                         *)
(*   services/keyword_mining.py  mine_keywords_from_cluster, attach_bsr_signal *)
(*   services/amazon_html.py     _get, scrape_listing_text, search_related_html *)
(*   services/keepa_client.py    KeepaClient.product_related               *)
(*   pages/3_Keyword_Intel.py    the collection / merge step               *)
(* Texts are TLA+ strings handled character by character, so cleaning,     *)
(* tokenizing and the regular expressions are computed, not assumed.       *)
(***************************************************************************)
EXTENDS Integers, Sequences, FiniteSets, TLC

(***************************************************************************)
(* Generic helpers                                                         *)
(***************************************************************************)
Char(s, i) == SubSeq(s, i, i)

Take(s, n) == SubSeq(s, 1, IF n < Len(s) THEN n ELSE Len(s))

\* a is a prefix of b
IsPrefix(a, b) == Len(a) <= Len(b) /\ SubSeq(b, 1, Len(a)) = a

Range(f) == {f[i] : i \in DOMAIN f}

Min2(a, b) == IF a < b THEN a ELSE b

Max2(a, b) == IF a > b THEN a ELSE b

\* s[p..] starts with pre
StartsAt(s, p, pre) ==
  /\ p + Len(pre) - 1 <= Len(s)
  /\ pre = "" \/ (/\ Char(s, p) = Char(pre, 1)
                  /\ Char(s, p + Len(pre) - 1) = Char(pre, Len(pre)))
  /\ SubSeq(s, p, p + Len(pre) - 1) = pre

\* Python's `sub in s`
Contains(s, sub) == \E p \in 1..(Len(s) - Len(sub) + 1) : StartsAt(s, p, sub)

UPPER == "ABCDEFGHIJKLMNOPQRSTUVWXYZ"

LOWER == "abcdefghijklmnopqrstuvwxyz"

DIGITS == "0123456789"

CharsOf(s) == {Char(s, i) : i \in 1..Len(s)}

LowerSet == CharsOf(LOWER)

UpperSet == CharsOf(UPPER)

DigitSet == CharsOf(DIGITS)

IsLowerChar(c) == c \in LowerSet

IsUpperChar(c) == c \in UpperSet

IsDigitChar(c) == c \in DigitSet

\* [a-zA-Z0-9_], the regular expressions' \w on ASCII text
IsWordChar(c) == IsLowerChar(c) \/ IsUpperChar(c) \/ IsDigitChar(c) \/ c = "_"

\* \s on the texts modelled here (blank, tab, newline)
IsSpaceChar(c) == c \in {" ", "\t", "\n"}

LowerChar(c) ==
  IF IsUpperChar(c)
  THEN Char(LOWER, CHOOSE i \in 1..Len(UPPER) : Char(UPPER, i) = c)
  ELSE c

UpperChar(c) ==
  IF IsLowerChar(c)
  THEN Char(UPPER, CHOOSE i \in 1..Len(LOWER) : Char(LOWER, i) = c)
  ELSE c

\* "".join(seq), by halves
RECURSIVE Concat(_)
Concat(seq) ==
  IF Len(seq) = 0 THEN ""
  ELSE IF Len(seq) = 1 THEN seq[1]
  ELSE LET h == Len(seq) \div 2
       IN  Concat(SubSeq(seq, 1, h)) \o Concat(SubSeq(seq, h + 1, Len(seq)))

StrLower(s) == Concat([i \in 1..Len(s) |-> LowerChar(Char(s, i))])

StrUpper(s) == Concat([i \in 1..Len(s) |-> UpperChar(Char(s, i))])

\* str.strip()
RECURSIVE LStrip(_)
LStrip(s) == IF s # "" /\ IsSpaceChar(Head(s)) THEN LStrip(Tail(s)) ELSE s

RECURSIVE RStrip(_)
RStrip(s) ==
  IF s # "" /\ IsSpaceChar(Char(s, Len(s)))
  THEN RStrip(SubSeq(s, 1, Len(s) - 1))
  ELSE s

Strip(s) == RStrip(LStrip(s))

\* sep.join(seq)
RECURSIVE JoinWith(_, _)
JoinWith(seq, sep) ==
  IF seq = <<>> THEN ""
  ELSE IF Len(seq) = 1 THEN seq[1]
  ELSE seq[1] \o sep \o JoinWith(Tail(seq), sep)

\* str.split(): the maximal runs of non-whitespace characters
Split(s) ==
  LET starts == {i \in 1..Len(s) :
                   ~IsSpaceChar(Char(s, i)) /\ (i = 1 \/ IsSpaceChar(Char(s, i - 1)))}
      ends == {i \in 1..Len(s) :
                 ~IsSpaceChar(Char(s, i)) /\ (i = Len(s) \/ IsSpaceChar(Char(s, i + 1)))}
      Nth(S, k) == CHOOSE i \in S : Cardinality({j \in S : j < i}) = k - 1
  IN  [k \in 1..Cardinality(starts) |-> SubSeq(s, Nth(starts, k), Nth(ends, k))]

(***************************************************************************)
(* keyword_mining.py: word lists                                           *)
(***************************************************************************)
\* the stopword list without "over"
StopwordsWithoutOver ==
  {"a", "an", "the", "and", "or", "but", "if", "while", "as", "than", "then",
   "so", "very", "more", "most", "such", "each", "per",
   "i", "you", "he", "she", "it", "we", "they", "me", "him", "her", "us",
   "them", "my", "your", "his", "its", "our", "their",
   "this", "that", "these", "those", "who", "whom", "whose", "which", "what",
   "where", "when", "why", "how",
   "be", "am", "is", "are", "was", "were", "being", "been", "do", "does",
   "did", "doing", "have", "has", "had", "having",
   "can", "could", "may", "might", "must", "shall", "should", "will", "would",
   "for", "to", "from", "with", "without", "within", "into", "onto", "upon",
   "of", "in", "on", "at", "by", "under",
   "up", "down", "out", "off", "across", "through", "between", "among",
   "along", "around", "behind", "beyond",
   "again", "further", "also", "only", "same", "other", "another", "any",
   "all", "some", "no", "nor", "not",
   "there", "here", "above", "below", "before", "after", "during", "until",
   "against", "about",
   "own", "once", "ever", "never", "always", "sometimes", "often", "usually"}

EN_STOPWORDS ==
  {"a", "an", "the", "and", "or", "but", "if", "while", "as", "than", "then",
   "so", "very", "more", "most", "such", "each", "per",
   "i", "you", "he", "she", "it", "we", "they", "me", "him", "her", "us",
   "them", "my", "your", "his", "its", "our", "their",
   "this", "that", "these", "those", "who", "whom", "whose", "which", "what",
   "where", "when", "why", "how",
   "be", "am", "is", "are", "was", "were", "being", "been", "do", "does",
   "did", "doing", "have", "has", "had", "having",
   "can", "could", "may", "might", "must", "shall", "should", "will", "would",
   "for", "to", "from", "with", "without", "within", "into", "onto", "upon",
   "of", "in", "on", "at", "by", "over", "under",
   "up", "down", "out", "off", "across", "through", "between", "among",
   "along", "around", "behind", "beyond",
   "again", "further", "also", "only", "same", "other", "another", "any",
   "all", "some", "no", "nor", "not",
   "there", "here", "above", "below", "before", "after", "during", "until",
   "against", "about",
   "own", "once", "ever", "never", "always", "sometimes", "often", "usually"}

DOMAIN_NOISE ==
  {"set", "kit", "stainless", "steel", "304", "home", "brewing", "brewer",
   "brewers", "brews", "beer",
   "plastic", "glass", "rubber", "silver", "black", "white"}

UNIT_TOKENS ==
  {"l", "ml", "cl", "dl", "oz", "floz", "inch", "in", "cm", "mm", "m", "kg",
   "g", "lb", "lbs", "pack", "packs", "pcs", "piece", "pieces", "pair"}

\* UI_NOISE_PATTERNS: each pattern is \b w1 w2 ... \b, a word sequence in which
\* one word may be an alternation (read (brief|full) content)
UI_NOISE_PATTERNS ==
  {"product description", "brief content", "read brief content",
   "read full content", "tap to read", "double tap", "content visible",
   "visit the store", "read more", "see more"}

(***************************************************************************)
(* keyword_mining.py: cleaning, tokenizing, n-grams                        *)
(***************************************************************************)
\* re.sub(r"[^a-z0-9\s\-\+./]", " ", s) on one character
KeepChar(c) ==
  IF IsLowerChar(c) \/ IsDigitChar(c) \/ IsSpaceChar(c) \/ c \in {"-", "+", ".", "/"}
  THEN c ELSE " "

SubNonKeep(s) == Concat([i \in 1..Len(s) |-> KeepChar(Char(s, i))])

\* re.sub(r"\s+", " ", s)
CollapseWs(s) ==
  Concat([i \in 1..Len(s) |->
            IF ~IsSpaceChar(Char(s, i)) THEN Char(s, i)
            ELSE IF i > 1 /\ IsSpaceChar(Char(s, i - 1)) THEN "" ELSE " "])

_clean_text(s) ==
  IF s = "" THEN "" ELSE Strip(CollapseWs(SubNonKeep(StrLower(s))))

_tokenize(text) == SelectSeq(Split(_clean_text(text)), LAMBDA t : Len(t) > 1)

\* every tokens[i : i + n] for n = n_min..n_max, i = 0..len - n, in the code's order
NgramsOfLen(tokens, n) ==
  [i \in 1..Max2(0, Len(tokens) - n + 1) |-> SubSeq(tokens, i, i + n - 1)]

RECURSIVE _ngrams(_, _, _)
_ngrams(tokens, n_min, n_max) ==
  IF n_min > n_max THEN <<>>
  ELSE NgramsOfLen(tokens, n_min) \o _ngrams(tokens, n_min + 1, n_max)

_ngram_to_text(ng) == JoinWith(ng, " ")

(***************************************************************************)
(* keyword_mining.py: the regular expressions                              *)
(***************************************************************************)
\* UI_NOISE_RE.search(text): some pattern occurs in text between two word
\* boundaries, case-insensitively (flags=re.I)
UiNoiseAt(t, p, i) ==
  /\ StartsAt(t, i, p)
  /\ (i = 1 \/ ~IsWordChar(Char(t, i - 1)))
  /\ (i + Len(p) > Len(t) \/ ~IsWordChar(Char(t, i + Len(p))))

\* UI_NOISE_RE.match(text): the pattern is looked for at the start of text only
UI_NOISE_RE_match(text) ==
  LET t == StrLower(text)
  IN  \E p \in UI_NOISE_PATTERNS : UiNoiseAt(t, p, 1)

UI_NOISE_RE_search(text) ==
  LET t == StrLower(text)
  IN  \E p \in UI_NOISE_PATTERNS : \E i \in 1..Len(t) : UiNoiseAt(t, p, i)

\* the position after the longest run of characters of class cls starting at p,
\* at most max characters long
RECURSIVE SkipChars(_, _, _, _)
SkipChars(s, p, cls, max) ==
  IF max > 0 /\ p <= Len(s) /\ Char(s, p) \in cls
  THEN SkipChars(s, p + 1, cls, max - 1)
  ELSE p

\* a group ([./-]\d+)? at p: the position after it, or p when it is absent
SepDigits(s, p) ==
  IF p < Len(s) /\ Char(s, p) \in {".", "/", "-"} /\ IsDigitChar(Char(s, p + 1))
  THEN SkipChars(s, p + 1, DigitSet, Len(s))
  ELSE p

\* SIZE_PAT.match(t): ^(\d+([./-]\d+)?([./-]\d+)?([a-z]{1,4})?|[a-z]{1,4}\d+)$
\* with re.IGNORECASE
SizeAlt1(t) ==
  LET p1 == SkipChars(t, 1, DigitSet, Len(t))
      p2 == SepDigits(t, p1)
      p3 == SepDigits(t, p2)
      p4 == SkipChars(t, p3, LowerSet, 4)
  IN  p1 > 1 /\ p4 = Len(t) + 1

SizeAlt2(t) ==
  \E k \in 1..4 :
     /\ k < Len(t)
     /\ SkipChars(t, 1, LowerSet, k) = k + 1
     /\ SkipChars(t, k + 1, DigitSet, Len(t)) = Len(t) + 1

SIZE_PAT_match(tok) == LET t == StrLower(tok) IN SizeAlt1(t) \/ SizeAlt2(t)

UNIT_SUFFIXES == {"l", "ml", "cl", "dl", "oz", "in", "cm", "mm", "m", "kg", "g", "lb", "lbs"}

UNIT_PREFIXES == {"in", "cm", "mm", "m"}

\* ^\d+(?:[./-]\d+)?(l|ml|cl|dl|oz|in|cm|mm|m|kg|g|lb|lbs)$
NumUnitMatch(t) ==
  LET p1 == SkipChars(t, 1, DigitSet, Len(t))
      p2 == SepDigits(t, p1)
  IN  p1 > 1 /\ SubSeq(t, p2, Len(t)) \in UNIT_SUFFIXES

\* ^(in|cm|mm|m)\d+$
UnitNumMatch(t) ==
  \E u \in UNIT_PREFIXES :
     /\ StartsAt(t, 1, u)
     /\ Len(t) > Len(u)
     /\ SkipChars(t, Len(u) + 1, DigitSet, Len(t)) = Len(t) + 1

_is_unit_token(t) ==
  \/ t \in UNIT_TOKENS
  \/ SIZE_PAT_match(t)
  \/ NumUnitMatch(t)
  \/ UnitNumMatch(t)

\* str.isdigit() on ASCII text
IsDigitStr(t) == t # "" /\ \A i \in 1..Len(t) : IsDigitChar(Char(t, i))

\* re.search(r"[a-z]", text)
HasAlpha(text) == \E i \in 1..Len(text) : IsLowerChar(Char(text, i))

(***************************************************************************)
(* keyword_mining.py: _is_noise_ngram                                      *)
(***************************************************************************)
StopRatioHigh(core, stop_all) ==
  2 * Cardinality({i \in 1..Len(core) : core[i] \in stop_all}) >= Len(core)

LowValueAnywhere(core, stop_all) ==
  \E i \in 1..Len(core) :
     core[i] \in stop_all \/ IsDigitStr(core[i]) \/ core[i] \in DOMAIN_NOISE

\* lines 113-116: a core of one token that is a stopword, digits or domain noise
LowValueUnigram(core, stop_all) ==
  /\ Len(core) = 1
  /\ (core[1] \in stop_all \/ IsDigitStr(core[1]) \/ core[1] \in DOMAIN_NOISE)

_is_noise_ngram(ng, stop_all) ==
  IF ng = <<>> THEN TRUE
  ELSE IF UI_NOISE_RE_search(_ngram_to_text(ng)) THEN TRUE
  ELSE LET core == SelectSeq(ng, LAMBDA t : ~_is_unit_token(t))
       IN  IF core = <<>> THEN TRUE
           ELSE IF LowValueUnigram(core, stop_all) THEN TRUE
           ELSE IF core[1] \in stop_all \/ core[Len(core)] \in stop_all THEN TRUE
           ELSE IF StopRatioHigh(core, stop_all) THEN TRUE
           ELSE IF ~HasAlpha(_ngram_to_text(core)) THEN TRUE
           ELSE IF Len(_ngram_to_text(core)) <= 2 THEN TRUE
           ELSE IF \E i \in 1..Len(core) : core[i] \in {"--", "-", "+"} THEN TRUE
           ELSE FALSE

(***************************************************************************)
(* mine_keywords_from_cluster: inputs                                      *)
(***************************************************************************)
MaxIds == 2

SampleCap == 8

SnippetLen == 200

ASINS == <<"B000000001", "B000000002", "B000000003", "B000000004">>

TitleA == "stainless steel pour over coffee dripper"

TitleB == "ceramic pour over coffee maker"

RECURSIVE Repeat(_, _)
Repeat(s, n) == IF n = 0 THEN "" ELSE s \o Repeat(s, n - 1)

\* a long-form text longer than the snippets of the debug rows: numbers,
\* dashes and a two-letter word
LongText == Repeat("12 1.2.3.4 12 -- ab -- ", 10)

\* listing texts a bundle is drawn from: {title, bullets, aplus}
BundlePool ==
  { [title |-> TitleA, bullets |-> "", aplus |-> ""],
    [title |-> TitleB, bullets |-> "", aplus |-> ""],
    [title |-> "", bullets |-> "Tap to read more about the product", aplus |-> LongText],
    [title |-> "", bullets |-> "", aplus |-> "Pour over coffee guide"],
    [title |-> " Coffee Maker 5L ", bullets |-> "Coffee maker, coffee maker 10oz product description",
     aplus |-> "Visit the store. Coffee guide"],
    [title |-> "", bullets |-> "", aplus |-> ""] }

\* cfg.keyword_mining; the weights are in tenths (1.0, 0.7, 0.4)
DefaultWeight == [title |-> 10, bullets |-> 7, aplus |-> 4]

Configs ==
  [min_df : {1, 2, 3}, max_top : {2, 200}, ngram_range : {<<1, 2>>},
   stopwords : {{}}, weight : {DefaultWeight}]
  \cup [min_df : {1, 2, 3}, max_top : {200}, ngram_range : {<<1, 3>>},
        stopwords : {{}}, weight : {DefaultWeight}]
  \cup [min_df : {2}, max_top : {200}, ngram_range : {<<1, 2>>, <<1, 3>>},
        stopwords : {{"maker"}}, weight : {DefaultWeight}]

StopAll(c) == EN_STOPWORDS \cup c.stopwords

\* the n-grams of one field that pass _is_noise_ngram (lines 213-226)
FilteredGrams(text, c) ==
  {g \in Range(_ngrams(_tokenize(text), c.ngram_range[1], c.ngram_range[2])) :
      ~_is_noise_ngram(g, StopAll(c))}

\* FilteredGrams of every stripped pool text, computed once
FieldTexts ==
  {Strip(b.title) : b \in BundlePool} \cup {Strip(b.bullets) : b \in BundlePool}
     \cup {Strip(b.aplus) : b \in BundlePool}

GramsTable ==
  [key \in {<<t, c.ngram_range, c.stopwords>> : t \in FieldTexts, c \in Configs} |->
     FilteredGrams(key[1], CHOOSE c \in Configs :
                              c.ngram_range = key[2] /\ c.stopwords = key[3])]

GramsOf(text, c) ==
  IF <<text, c.ngram_range, c.stopwords>> \in DOMAIN GramsTable
  THEN GramsTable[<<text, c.ngram_range, c.stopwords>>]
  ELSE FilteredGrams(text, c)

\* key = " ".join(g) for g in set(grams)
KeysOf(text, c) == {_ngram_to_text(g) : g \in GramsOf(text, c)}

(***************************************************************************)
(* Python orders: sorted() on ASCII strings, and the iteration order of a  *)
(* set of strings, which follows the string hash and so the interpreter's  *)
(* per-process hash seed.  Each seed of HashSeeds stands for one process:  *)
(* it fixes one total order in which that process iterates its sets.       *)
(***************************************************************************)
ORDERED_CHARS ==
  " !+,-./0123456789ABCDEFGHIJKLMNOPQRSTUVWXYZ_abcdefghijklmnopqrstuvwxyz|"

CharIdx(c) ==
  IF c \in CharsOf(ORDERED_CHARS)
  THEN CHOOSE i \in 1..Len(ORDERED_CHARS) : Char(ORDERED_CHARS, i) = c
  ELSE 0

RECURSIVE StrLess(_, _)
StrLess(a, b) ==
  IF b = "" THEN FALSE
  ELSE IF a = "" THEN TRUE
  ELSE IF Head(a) = Head(b) THEN StrLess(Tail(a), Tail(b))
  ELSE CharIdx(Head(a)) < CharIdx(Head(b))

HashSeeds == {0, 1}

IterBefore(seed, a, b) == IF seed = 0 THEN StrLess(a, b) ELSE StrLess(b, a)

RECURSIVE OrderSet(_, _)
OrderSet(S, seed) ==
  IF S = {} THEN <<>>
  ELSE LET x == CHOOSE y \in S : \A z \in S \ {y} : IterBefore(seed, y, z)
       IN  <<x>> \o OrderSet(S \ {x}, seed)

\* the strings the mining inputs can produce, ordered once per seed
KnownStrings ==
  UNION {KeysOf(t, c) : t \in FieldTexts, c \in Configs} \cup Range(ASINS)

KnownOrder == <<OrderSet(KnownStrings, 0), OrderSet(KnownStrings, 1)>>

\* list(S) for a set S of strings under the process's hash seed: OrderSet(S, seed)
ListOfSet(S, seed) ==
  IF S \subseteq KnownStrings
  THEN SelectSeq(KnownOrder[seed + 1], LAMBDA x : x \in S)
  ELSE OrderSet(S, seed)

\* sorted(S)
SortedList(S) == OrderSet(S, 0)

(***************************************************************************)
(* mine_keywords_from_cluster: state                                       *)
(***************************************************************************)
VARIABLES
  texts_by_asin,   \* the input dict, as the sequence of its items
  cfg,             \* cfg.keyword_mining
  hash_seed,       \* the hash seed of the process running mine
  m_pc,            \* "iterate", "built", "relaxed", "done"
  m_idx,           \* the next item of texts_by_asin
  df_count, tf_weighted, title_hits, bullet_hits, aplus_hits, per_kw_asins,
  df_order,        \* the keys of df_count in insertion order
  debug_rows,
  kw_table,        \* the table, as the sequence of its rows
  kw_columns,      \* the columns of the table
  builds,          \* calls of _build_df
  run,             \* 1: first run; 2: the same input mined again
  prev_table       \* the table the first run returned

mineVars ==
  <<texts_by_asin, cfg, hash_seed, m_pc, m_idx, df_count, tf_weighted, title_hits,
    bullet_hits, aplus_hits, per_kw_asins, df_order, debug_rows, kw_table, kw_columns,
    builds, run, prev_table>>

counterVars ==
  <<df_count, tf_weighted, title_hits, bullet_hits, aplus_hits, per_kw_asins,
    df_order, debug_rows>>

\* Counter.__getitem__: 0 for a missing key
CounterGet(c, k) == IF k \in DOMAIN c THEN c[k] ELSE 0

EmptyCounter == [k \in {} |-> 0]

NumIds == Len(texts_by_asin)

(***************************************************************************)
(* mine_keywords_from_cluster: score, table build                          *)
(***************************************************************************)
\* log1p(d) = (LnHi(d) + LnLo(d) / 10^5) / 10^4
LnHi(d) ==
  CASE d = 0 -> 0 [] d = 1 -> 6931 [] d = 2 -> 10986 [] d = 3 -> 13862
    [] d = 4 -> 16094 [] d = 5 -> 17917 [] d = 6 -> 19459 [] d = 7 -> 20794
    [] d = 8 -> 21972 [] d = 9 -> 23025

LnLo(d) ==
  CASE d = 0 -> 0 [] d = 1 -> 47181 [] d = 2 -> 12289 [] d = 3 -> 94361
    [] d = 4 -> 37912 [] d = 5 -> 59469 [] d = 6 -> 10149 [] d = 7 -> 41542
    [] d = 8 -> 24577 [] d = 9 -> 85093

\* round(tf * (1.0 + log1p(dfv)), 4) in units of 10^-4, tf given in tenths
Score(tf, dfv) ==
  LET A == tf * (10000 + LnHi(dfv))
      B == tf * LnLo(dfv)
  IN  (A \div 10) + (((A % 10) * 100000 + B + 500000) \div 1000000)

\* one row of the table (lines 270-279); tf_weighted in tenths
RowOf(kw) ==
  [keyword |-> kw,
   score |-> Score(tf_weighted[kw], df_count[kw]),
   df |-> df_count[kw],
   tf_weighted |-> tf_weighted[kw],
   title_hits |-> CounterGet(title_hits, kw),
   bullet_hits |-> CounterGet(bullet_hits, kw),
   aplus_hits |-> CounterGet(aplus_hits, kw),
   sample_asins |-> JoinWith(Take(ListOfSet(per_kw_asins[kw], hash_seed), SampleCap), ",")]

\* the sort key (score, df, tf_weighted), descending
RanksAbove(a, b) ==
  \/ a.score > b.score
  \/ a.score = b.score /\ a.df > b.df
  \/ a.score = b.score /\ a.df = b.df /\ a.tf_weighted > b.tf_weighted

\* r placed after every row that does not rank below it: a stable insertion
InsertRow(sorted, r) ==
  LET below == {i \in 1..Len(sorted) : RanksAbove(r, sorted[i])}
      at == IF below = {} THEN Len(sorted) + 1
            ELSE CHOOSE i \in below : \A j \in below : i <= j
  IN  SubSeq(sorted, 1, at - 1) \o <<r>> \o SubSeq(sorted, at, Len(sorted))

\* df.sort_values([score, df, tf_weighted], ascending=False): stable
RECURSIVE sort_values(_)
sort_values(rows) ==
  IF rows = <<>> THEN <<>>
  ELSE InsertRow(sort_values(SubSeq(rows, 1, Len(rows) - 1)), rows[Len(rows)])

NoMinDfFilter(rows, min_df_value) == rows

\* `if dfv < min_df_value: continue` (lines 268-269)
MinDfFilter(rows, min_df_value) == SelectSeq(rows, LAMBDA r : r.df >= min_df_value)

UiNoiseFilter(rows) == SelectSeq(rows, LAMBDA r : ~UI_NOISE_RE_search(r.keyword))

\* the table without the A+-only cleanup
KeepAplusOnly(rows) == rows

AplusOnlyFilter(rows) ==
  SelectSeq(rows, LAMBDA r : ~(r.title_hits = 0 /\ r.bullet_hits = 0 /\ r.aplus_hits > 0))

HeadRows(rows, n) == IF Len(rows) > n THEN SubSeq(rows, 1, n) ELSE rows

\* the columns of _empty_kw_df() (lines 142-154)
_empty_kw_df ==
  <<"keyword", "score", "df", "tf_weighted", "title_hits", "bullet_hits", "aplus_hits",
    "sample_asins">>

\* the columns of pd.DataFrame(rows): the keys of the row dicts (lines 270-279)
RowKeys ==
  <<"keyword", "score", "df", "tf_weighted", "title_hits", "bullet_hits", "aplus_hits",
    "sample_asins">>

\* the columns of the table _build_df returns
BuildColumns(min_df_value) ==
  IF \A i \in 1..Len(df_order) : df_count[df_order[i]] < min_df_value
  THEN _empty_kw_df ELSE RowKeys

\* the table cut to max_top rows before it is sorted
BuildCapFirst(min_df_value) ==
  LET rows == MinDfFilter([i \in 1..Len(df_order) |-> RowOf(df_order[i])], min_df_value)
  IN  IF rows = <<>> THEN <<>>
      ELSE sort_values(HeadRows(AplusOnlyFilter(UiNoiseFilter(rows)), cfg.max_top))

\* lines 265-302
_build_df(min_df_value) ==
  LET rows == MinDfFilter([i \in 1..Len(df_order) |-> RowOf(df_order[i])], min_df_value)
  IN  IF rows = <<>> THEN <<>>
      ELSE HeadRows(sort_values(AplusOnlyFilter(UiNoiseFilter(rows))), cfg.max_top)

(***************************************************************************)
(* mine_keywords_from_cluster: steps                                       *)
(***************************************************************************)
MineStart ==
  /\ \E n \in 0..MaxIds : \E f \in [1..n -> BundlePool] :
        texts_by_asin = [i \in 1..n |->
           [asin |-> ASINS[i], title |-> f[i].title, bullets |-> f[i].bullets,
            aplus |-> f[i].aplus]]
  /\ cfg \in Configs
  /\ hash_seed \in HashSeeds
  /\ m_pc = "iterate"
  /\ m_idx = 1
  /\ df_count = EmptyCounter
  /\ tf_weighted = EmptyCounter
  /\ title_hits = EmptyCounter
  /\ bullet_hits = EmptyCounter
  /\ aplus_hits = EmptyCounter
  /\ per_kw_asins = [k \in {} |-> {}]
  /\ df_order = <<>>
  /\ debug_rows = <<>>
  /\ kw_table = <<>>
  /\ kw_columns = <<>>
  /\ builds = 0
  /\ run = 1
  /\ prev_table = <<>>

BumpEveryKey(c, keys) == [k \in DOMAIN c \cup keys |-> CounterGet(c, k) + 1]

\* counter[key] += 1 for every key of the set (lines 231-255)
Bump(c, keys) == [k \in DOMAIN c \cup keys |-> CounterGet(c, k) + (IF k \in keys THEN 1 ELSE 0)]

\* df_count incremented in each field's loop instead of once per asin
DfBumpPerField(c, keys_t, keys_b, keys_a) == Bump(Bump(Bump(c, keys_t), keys_b), keys_a)

\* seen_in_asin and `for key in seen_in_asin: df_count[key] += 1` (lines 228-255)
DfBump(c, keys_t, keys_b, keys_a) == Bump(c, keys_t \cup keys_b \cup keys_a)

DebugRowUntruncated(asin, title, bullets, aplus) ==
  [asin |-> asin, title |-> title, bullets |-> bullets, aplus |-> aplus]

\* the dict of debug_rows.append (lines 257-262)
DebugRow(asin, title, bullets, aplus) ==
  [asin |-> asin, title |-> Take(title, SnippetLen),
   bullets |-> Take(bullets, SnippetLen), aplus |-> Take(aplus, SnippetLen)]

\* one iteration of `for asin, parts in texts_by_asin.items()` (lines 203-262)
ProcessBundle ==
  /\ m_pc = "iterate"
  /\ m_idx <= NumIds
  /\ LET parts == texts_by_asin[m_idx]
         title == Strip(parts.title)
         bullets == Strip(parts.bullets)
         aplus == Strip(parts.aplus)
         keys_t == KeysOf(title, cfg)
         keys_b == KeysOf(bullets, cfg)
         keys_a == KeysOf(aplus, cfg)
         seen_in_asin == keys_t \cup keys_b \cup keys_a
         dom == DOMAIN df_count \cup seen_in_asin
     IN  /\ tf_weighted' = [k \in dom |->
               CounterGet(tf_weighted, k)
                 + (IF k \in keys_t THEN cfg.weight.title ELSE 0)
                 + (IF k \in keys_b THEN cfg.weight.bullets ELSE 0)
                 + (IF k \in keys_a THEN cfg.weight.aplus ELSE 0)]
         /\ title_hits' = Bump(title_hits, keys_t)
         /\ bullet_hits' = Bump(bullet_hits, keys_b)
         /\ aplus_hits' = Bump(aplus_hits, keys_a)
         /\ per_kw_asins' = [k \in dom |->
               (IF k \in DOMAIN per_kw_asins THEN per_kw_asins[k] ELSE {})
                 \cup (IF k \in seen_in_asin THEN {parts.asin} ELSE {})]
         /\ df_count' = DfBump(df_count, keys_t, keys_b, keys_a)
         /\ df_order' = df_order \o ListOfSet(seen_in_asin \ DOMAIN df_count, hash_seed)
         /\ debug_rows' = Append(debug_rows, DebugRow(parts.asin, title, bullets, aplus))
  /\ m_idx' = m_idx + 1
  /\ UNCHANGED <<texts_by_asin, cfg, hash_seed, m_pc, kw_table, kw_columns, builds, run,
                 prev_table>>

\* kw_table = _build_df(min_df_cfg) (line 305)
Build ==
  /\ m_pc = "iterate"
  /\ m_idx > NumIds
  /\ kw_table' = _build_df(cfg.min_df)
  /\ kw_columns' = BuildColumns(cfg.min_df)
  /\ builds' = builds + 1
  /\ m_pc' = "built"
  /\ UNCHANGED <<texts_by_asin, cfg, hash_seed, m_idx, counterVars, run, prev_table>>

RelaxWheneverEmpty == kw_table = <<>> /\ cfg.min_df > 1

\* line 308
RelaxCondition == kw_table = <<>> /\ Cardinality(DOMAIN df_count) > 0 /\ cfg.min_df > 1

\* the fallback of lines 308-309: retry with min_df = 1
Relax ==
  /\ m_pc = "built"
  /\ RelaxCondition
  /\ kw_table' = _build_df(1)
  /\ kw_columns' = BuildColumns(1)
  /\ builds' = builds + 1
  /\ m_pc' = "relaxed"
  /\ UNCHANGED <<texts_by_asin, cfg, hash_seed, m_idx, counterVars, run, prev_table>>

\* lines 312-315: the table is returned as it stands
Return ==
  /\ \/ m_pc = "built" /\ ~RelaxCondition
     \/ m_pc = "relaxed"
  /\ m_pc' = "done"
  /\ kw_columns' = IF kw_table = <<>> /\ Cardinality(DOMAIN df_count) = 0
                   THEN _empty_kw_df ELSE kw_columns
  /\ UNCHANGED <<texts_by_asin, cfg, hash_seed, m_idx, counterVars, kw_table, builds,
                 run, prev_table>>

\* the same bundles and configuration are mined a second time, possibly by
\* another process (another hash seed)
Rerun ==
  /\ m_pc = "done"
  /\ run = 1
  /\ run' = 2
  /\ prev_table' = kw_table
  /\ hash_seed' \in HashSeeds
  /\ m_pc' = "iterate"
  /\ m_idx' = 1
  /\ df_count' = EmptyCounter
  /\ tf_weighted' = EmptyCounter
  /\ title_hits' = EmptyCounter
  /\ bullet_hits' = EmptyCounter
  /\ aplus_hits' = EmptyCounter
  /\ per_kw_asins' = [k \in {} |-> {}]
  /\ df_order' = <<>>
  /\ debug_rows' = <<>>
  /\ kw_table' = <<>>
  /\ kw_columns' = <<>>
  /\ builds' = 0
  /\ UNCHANGED <<texts_by_asin, cfg>>

(***************************************************************************)
(* keyword_mining.py: attach_bsr_signal                                    *)
(***************************************************************************)
MaxCands == 2

\* series the provider can return: lists of (timestamp, value) points; a point
\* whose value is None is written as <<timestamp>>
SeriesPool ==
  { <<>>,
    << <<0, 100>>, <<1, 90>> >>,
    << <<1, 90>>, <<0, 100>> >>,
    << <<5, 70>> >>,
    << <<0, 50>>, <<1, 80>>, <<2, 70>> >>,
    << <<0, 40>>, <<1, 0>> >>,
    << <<0, 100>>, <<1>> >> }

\* what keepa_client.product_bsr_series does for one candidate: returns a
\* series, or raises
ProviderAnswers ==
  [raised : {FALSE}, series : SeriesPool] \cup {[raised |-> TRUE, series |-> <<>>]}

WindowChoices == {1, 2, 5}

\* the ranked tables annotate is given
TrendTables ==
  { <<>>,
    << [keyword |-> "coffee", score |-> 41972, df |-> 2, tf_weighted |-> 20,
        title_hits |-> 2, bullet_hits |-> 0, aplus_hits |-> 0,
        sample_asins |-> "B000000001,B000000002"],
       [keyword |-> "maker", score |-> 16931, df |-> 1, tf_weighted |-> 10,
        title_hits |-> 1, bullet_hits |-> 0, aplus_hits |-> 0,
        sample_asins |-> "B000000002"] >> }

VARIABLES
  bsr_table,        \* the kw_table argument
  candidate_asins,
  bsr_answers,      \* the provider's answer for each candidate
  window,
  b_pc,             \* "loop", "done"
  b_idx,
  deltas,
  avg_delta,        \* round(avg_delta, 2), in hundredths
  label,
  bsr_out           \* the returned table

trendVars ==
  <<bsr_table, candidate_asins, bsr_answers, window, b_pc, b_idx, deltas, avg_delta,
    label, bsr_out>>

\* sorted(series, key=lambda x: x[0]): stable, ascending by timestamp
InsertPoint(sorted, pt) ==
  LET later == {i \in 1..Len(sorted) : sorted[i][1] > pt[1]}
      at == IF later = {} THEN Len(sorted) + 1
            ELSE CHOOSE i \in later : \A j \in later : i <= j
  IN  SubSeq(sorted, 1, at - 1) \o <<pt>> \o SubSeq(sorted, at, Len(sorted))

RECURSIVE SortSeries(_)
SortSeries(series) ==
  IF series = <<>> THEN <<>>
  ELSE InsertPoint(SortSeries(SubSeq(series, 1, Len(series) - 1)), series[Len(series)])

\* the point compared with the last one counts window points from the end
PrevIndexStepsBack(n, w) == Max2(1, n - w)

\* series[-min(len(series), window)], as a 1-based index (line 341)
PrevIndex(n, w) == n - Min2(n, w) + 1

\* a rank value counts whenever it is not None
ValuePresent(pt) == Len(pt) = 2

\* Python truth of a rank value: None and 0 are false
Truthy(pt) == Len(pt) = 2 /\ pt[2] # 0

\* what one candidate adds to deltas (lines 333-346)
DeltaOf(answer, w) ==
  IF answer.raised THEN <<>>
  ELSE IF answer.series = <<>> THEN <<>>
  ELSE LET series == SortSeries(answer.series)
       IN  IF Len(series) < 2 THEN <<>>
           ELSE LET last == series[Len(series)]
                    prev == series[PrevIndex(Len(series), w)]
                IN  IF Truthy(last) /\ Truthy(prev) THEN <<prev[2] - last[2]>> ELSE <<>>

RECURSIVE SumSeq(_)
SumSeq(q) == IF q = <<>> THEN 0 ELSE q[1] + SumSeq(Tail(q))

\* round(sum(deltas) / len(deltas), 2) in hundredths (no tie below 8 deltas)
RoundedMean(q) ==
  IF q = <<>> THEN 0 ELSE (200 * SumSeq(q) + Len(q)) \div (2 * Len(q))

LabelWithoutNeutral(q) ==
  IF q = <<>> THEN "Neutral"
  ELSE IF SumSeq(q) >= 0 THEN "Positive"
  ELSE "Negative"

\* lines 349-353
LabelOf(q) ==
  IF q = <<>> THEN "Neutral"
  ELSE IF SumSeq(q) > 0 THEN "Positive"
  ELSE IF SumSeq(q) < 0 THEN "Negative"
  ELSE "Neutral"

TrendStart ==
  /\ bsr_table \in TrendTables
  /\ \E n \in 0..MaxCands :
        /\ candidate_asins = [i \in 1..n |-> ASINS[i]]
        /\ bsr_answers \in [1..n -> ProviderAnswers]
  /\ window \in WindowChoices
  /\ b_pc = "loop"
  /\ b_idx = 1
  /\ deltas = <<>>
  /\ avg_delta = 0
  /\ label = "Neutral"
  /\ bsr_out = <<>>

\* one iteration of `for a in candidate_asins` (lines 332-346)
AnnotateCandidate ==
  /\ b_pc = "loop"
  /\ b_idx <= Len(candidate_asins)
  /\ deltas' = deltas \o DeltaOf(bsr_answers[b_idx], window)
  /\ b_idx' = b_idx + 1
  /\ UNCHANGED <<bsr_table, candidate_asins, bsr_answers, window, b_pc, avg_delta,
                 label, bsr_out>>

\* lines 348-358: the mean, the label, and the two columns on a copy of the table
Broadcast ==
  /\ b_pc = "loop"
  /\ b_idx > Len(candidate_asins)
  /\ avg_delta' = RoundedMean(deltas)
  /\ label' = LabelOf(deltas)
  /\ bsr_out' = [i \in 1..Len(bsr_table) |->
        [keyword |-> bsr_table[i].keyword, score |-> bsr_table[i].score,
         df |-> bsr_table[i].df, tf_weighted |-> bsr_table[i].tf_weighted,
         title_hits |-> bsr_table[i].title_hits, bullet_hits |-> bsr_table[i].bullet_hits,
         aplus_hits |-> bsr_table[i].aplus_hits, sample_asins |-> bsr_table[i].sample_asins,
         bsr_sync_signal |-> LabelOf(deltas),
         bsr_avg_delta_sample |-> RoundedMean(deltas)]]
  /\ b_pc' = "done"
  /\ UNCHANGED <<bsr_table, candidate_asins, bsr_answers, window, b_idx, deltas>>

\* attach_bsr_signal not running
TrendIdle ==
  /\ bsr_table = <<>>
  /\ candidate_asins = <<>>
  /\ bsr_answers = <<>>
  /\ window = 0
  /\ b_pc = "idle"
  /\ b_idx = 0
  /\ deltas = <<>>
  /\ avg_delta = 0
  /\ label = ""
  /\ bsr_out = <<>>

\* mine_keywords_from_cluster not running
MineIdle ==
  /\ texts_by_asin = <<>>
  /\ cfg = [min_df |-> 0]
  /\ hash_seed = 0
  /\ m_pc = "idle"
  /\ m_idx = 0
  /\ df_count = EmptyCounter
  /\ tf_weighted = EmptyCounter
  /\ title_hits = EmptyCounter
  /\ bullet_hits = EmptyCounter
  /\ aplus_hits = EmptyCounter
  /\ per_kw_asins = [k \in {} |-> {}]
  /\ df_order = <<>>
  /\ debug_rows = <<>>
  /\ kw_table = <<>>
  /\ kw_columns = <<>>
  /\ builds = 0
  /\ run = 0
  /\ prev_table = <<>>

(***************************************************************************)
(* amazon_html.py: _get and _extract_related_asins                         *)
(***************************************************************************)
GetRetries == 2

\* a parsed page: the texts of the elements the selectors look for
NoDoc ==
  [productTitle |-> "", h1 |-> "", feature_li |-> <<>>, feature_div |-> <<>>,
   list_items |-> <<>>, aplus_divs |-> <<>>, expander_divs |-> <<>>, byline |-> "",
   detail_rows |-> <<>>, detail_bullets |-> <<>>, data_asin |-> <<>>, hrefs |-> <<>>,
   price_els |-> <<>>, color_price |-> "", star_el |-> "", review_el |-> "",
   review_link |-> ""]

\* what session.get does: raises (the class and message of the exception), or
\* answers with a status, a text and the document the text parses to
Raising(cls, msg) ==
  [raises |-> cls, msg |-> msg, status_code |-> 0, text |-> "", doc |-> NoDoc]

Answer(status, text, doc) ==
  [raises |-> "", msg |-> "", status_code |-> status, text |-> text, doc |-> doc]

ExceptionClasses ==
  {"Timeout", "ConnectionError", "HTTPError", "JSONDecodeError", "AttributeError",
   "TypeError"}

GetCatchesTimeoutOnly(cls) == cls = "Timeout"

\* `except Exception` of _get (line 61)
GetCatches(cls) == cls \in ExceptionClasses

GetAcceptsEveryOk(resp) == resp.status_code = 200

\* line 58: status 200 and no bot-check marker
GetAccepts(resp) ==
  /\ resp.status_code = 200
  /\ ~Contains(resp.text, "Robot Check")
  /\ ~Contains(StrLower(resp.text), "captcha")

\* one pass of the loop of _get: "return" (line 59), "retry" (lines 60-63), or
\* "raise" when the exception is not caught
GetTry(resp) ==
  IF resp.raises # ""
  THEN (IF GetCatches(resp.raises) THEN "retry" ELSE "raise")
  ELSE IF GetAccepts(resp) THEN "return" ELSE "retry"

\* the retries argument of a call of _get
RetryChoices == {0, 1, 2}

\* answers to a request of _get
GetPages ==
  { Raising("Timeout", "Read timed out"),
    Raising("ConnectionError", "Connection refused"),
    Answer(404, "Not Found", NoDoc),
    Answer(503, "", NoDoc),
    Answer(200, "Robot Check", NoDoc),
    Answer(200, "<html>Enter the CAPTCHA</html>", NoDoc),
    Answer(200, "", NoDoc),
    Answer(200, "<html>page</html>", NoDoc) }

VARIABLES
  g_retries,    \* the retries argument
  g_pc,         \* "loop", "returned", "raised"
  g_i,          \* the loop variable i
  g_log,        \* what session.get did on each pass, in order
  g_sleeps,     \* the i of every time.sleep made, in order
  g_ret         \* the value returned: <<txt>>, or <<>> for None

getVars == <<g_retries, g_pc, g_i, g_log, g_sleeps, g_ret>>

GetStart ==
  /\ g_retries \in RetryChoices
  /\ g_pc = "loop"
  /\ g_i = 0
  /\ g_log = <<>>
  /\ g_sleeps = <<>>
  /\ g_ret = <<>>

\* one pass of `for i in range(retries + 1)` (lines 53-63)
GetAttempt ==
  /\ g_pc = "loop"
  /\ g_i <= g_retries
  /\ \E resp \in GetPages :
       /\ g_log' = Append(g_log, resp)
       /\ IF GetTry(resp) = "raise"
          THEN g_pc' = "raised" /\ UNCHANGED <<g_i, g_sleeps, g_ret>>
          ELSE IF GetTry(resp) = "return"
          THEN g_pc' = "returned" /\ g_ret' = <<resp.text>> /\ UNCHANGED <<g_i, g_sleeps>>
          ELSE g_sleeps' = Append(g_sleeps, g_i) /\ g_i' = g_i + 1 /\ UNCHANGED <<g_pc, g_ret>>
  /\ UNCHANGED g_retries

\* `return None` after the loop (line 64)
GetGiveUp ==
  /\ g_pc = "loop"
  /\ g_i > g_retries
  /\ g_pc' = "returned"
  /\ g_ret' = <<>>
  /\ UNCHANGED <<g_retries, g_i, g_log, g_sleeps>>

\* _get not running
GetIdle ==
  /\ g_retries = 0
  /\ g_pc = "idle"
  /\ g_i = 0
  /\ g_log = <<>>
  /\ g_sleeps = <<>>
  /\ g_ret = <<>>

IsAsinChar(c) == IsUpperChar(c) \/ IsDigitChar(c)

\* ASIN_RE.search(href): the first "/dp/" followed by ten characters of [A-Z0-9]
AsinReSearch(href) ==
  LET hits == {p \in 1..Len(href) :
                 /\ StartsAt(href, p, "/dp/")
                 /\ p + 13 <= Len(href)
                 /\ \A k \in 4..13 : IsAsinChar(Char(href, p + k))}
  IN  IF hits = {} THEN <<>>
      ELSE LET p == CHOOSE q \in hits : \A r \in hits : q <= r
           IN  <<SubSeq(href, p + 4, p + 13)>>

\* the set _extract_related_asins collects
_extract_related_asins(doc) ==
  LET attrs == {StrUpper(Strip(doc.data_asin[i])) : i \in DOMAIN doc.data_asin}
      links == {doc.hrefs[i] : i \in DOMAIN doc.hrefs}
  IN  {a \in attrs : Len(a) = 10 /\ StartsAt(a, 1, "B0")}
      \cup {StrUpper(AsinReSearch(h)[1]) :
              h \in {g \in links : Contains(g, "/dp/") /\ AsinReSearch(g) # <<>>}}

\* sorted(list_of_strings): duplicates stay
RECURSIVE SortStrings(_)
SortStrings(q) ==
  IF q = <<>> THEN <<>>
  ELSE LET rest == SortStrings(SubSeq(q, 1, Len(q) - 1))
           x == q[Len(q)]
           below == SelectSeq(rest, LAMBDA y : ~StrLess(x, y))
           above == SelectSeq(rest, LAMBDA y : StrLess(x, y))
       IN  below \o <<x>> \o above

(***************************************************************************)
(* keepa_client.py: product_related                                        *)
(***************************************************************************)
KeepaRetries == 2

RelationKeys == {"alsoBought", "alsoViewed", "frequentlyBoughtTogether", "related"}

StrItem(x) == [is_str |-> TRUE, s |-> x]

NonStrItem == [is_str |-> FALSE, s |-> ""]

Product(bought, viewed, together, related) ==
  [kind |-> "dict", alsoBought |-> bought, alsoViewed |-> viewed,
   frequentlyBoughtTogether |-> together, related |-> related]

NotAProduct ==
  [kind |-> "str", alsoBought |-> <<>>, alsoViewed |-> <<>>,
   frequentlyBoughtTogether |-> <<>>, related |-> <<>>]

\* the body r.json() decodes: kind "dict", "list" or "invalid" (not JSON)
Json(kind, error, products) == [kind |-> kind, error |-> error, products |-> products]

KeepaRaising(cls, msg) ==
  [raises |-> cls, msg |-> msg, status_code |-> 0, json |-> Json("invalid", "", <<>>)]

KeepaAnswer(status, json) ==
  [raises |-> "", msg |-> "", status_code |-> status, json |-> json]

KeepaResponses ==
  { KeepaRaising("Timeout", "Read timed out"),
    KeepaRaising("ConnectionError", "Connection refused"),
    KeepaAnswer(503, Json("invalid", "", <<>>)),
    KeepaAnswer(200, Json("invalid", "", <<>>)),
    KeepaAnswer(200, Json("dict", "invalid key", <<>>)),
    KeepaAnswer(200, Json("dict", "", <<>>)),
    KeepaAnswer(200, Json("dict", "", <<NotAProduct>>)),
    KeepaAnswer(200, Json("dict", "", <<Product(
        <<StrItem("b000000002"), StrItem("B000000001"), NonStrItem>>,
        <<StrItem("B00000003"), StrItem("B000000002")>>, <<>>,
        <<StrItem("B000000003")>>)>>)),
    KeepaAnswer(200, Json("dict", "", <<Product(
        <<>>, <<>>, <<StrItem("B0-1234567")>>, <<StrItem("b000000001")>>)>>)) }

KeepaCatchesRequestErrors(cls) == cls \in {"Timeout", "ConnectionError", "HTTPError"}

\* `except Exception` of product_related (line 41)
KeepaCatches(cls) == cls \in ExceptionClasses

\* lines 36-40: the related ids of the first product
KeepaRelated(p, asin) ==
  LET items == UNION {Range(p[k]) : k \in RelationKeys}
  IN  {StrUpper(x.s) : x \in {y \in items : y.is_str /\ Len(y.s) = 10}} \ {StrUpper(asin)}

KeepaRaise(cls, msg) == [raised |-> cls, msg |-> msg, rel |-> <<>>, err |-> <<>>]

KeepaReturn(rel_list, err) == [raised |-> "", msg |-> "", rel |-> rel_list, err |-> err]

\* the body of the try of product_related on one response (lines 25-40)
KeepaTry(resp, asin) ==
  IF resp.raises # "" THEN KeepaRaise(resp.raises, resp.msg)
  ELSE IF resp.status_code >= 400 THEN KeepaRaise("HTTPError", "Server Error")
  ELSE IF resp.json.kind = "invalid" THEN KeepaRaise("JSONDecodeError", "Expecting value")
  ELSE IF resp.json.kind = "list"
       THEN KeepaRaise("AttributeError", "list object has no attribute get")
  ELSE IF resp.json.error # ""
       THEN KeepaReturn(<<>>, <<"Keepa API error: " \o resp.json.error>>)
  ELSE IF resp.json.products = <<>> THEN KeepaReturn(<<>>, <<"No products returned">>)
  ELSE IF resp.json.products[1].kind # "dict"
       THEN KeepaRaise("AttributeError", "str object has no attribute get")
  ELSE KeepaReturn(SortedList(KeepaRelated(resp.json.products[1], asin)), <<>>)

(***************************************************************************)
(* pages/3_Keyword_Intel.py: step 1, collecting the related ids            *)
(***************************************************************************)
\* answers to a fetch of the seed's page
SeedPages ==
  { Raising("Timeout", "Read timed out"),
    Answer(503, "Service Unavailable", NoDoc),
    Answer(200, "Robot Check", NoDoc),
    Answer(200, "<html>related</html>",
           [NoDoc EXCEPT !.data_asin = <<" b000000002 ", "", "B0!2345678", "A000000009">>,
                         !.hrefs = <<"/dp/B000000003/ref=x", "/dp/b000000004", "/gp/help">>]),
    Answer(200, "<html>self</html>",
           [NoDoc EXCEPT !.hrefs = <<"https://www.amazon.co.uk/dp/B000000001">>]),
    Answer(200, "<html>plain</html>", NoDoc) }

SeedChoices == {"B000000001", "B000000002"}

\* the slider's lowest value, and one below the ids the channels can return
MaxClusterChoices == {2, 10}

VARIABLES
  seed_asin, api_key, do_keepa, do_html, max_cluster,
  c_pc,             \* "keepa", "html", "merge", "done", "stopped", "raised"
  k_try,            \* passes of the loop of product_related made so far
  k_log,            \* the response each pass got
  keepa_requests,   \* requests.get calls
  rel, keepa_err,   \* what product_related returned; keepa_err <<>> is None
  warnings,         \* st.warning calls
  h_url,            \* 1: desktop page, 2: mobile page
  h_try,
  html_ran,         \* search_related_html was called
  rel_html,
  all_asins,        \* the set
  all_asins_list,   \* the list all_asins is rebound to
  errors,           \* st.error calls
  stages            \* the stages of the run started so far, in order

collectVars ==
  <<seed_asin, api_key, do_keepa, do_html, max_cluster, c_pc, k_try, k_log,
    keepa_requests, rel, keepa_err, warnings, h_url, h_try, html_ran, rel_html,
    all_asins, all_asins_list, errors, stages>>

pipelineVars == <<errors, stages>>

collectInputs == <<seed_asin, api_key, do_keepa, do_html, max_cluster>>

keepaVars == <<k_try, k_log, keepa_requests, rel, keepa_err, warnings>>

htmlVars == <<h_url, h_try, html_ran, rel_html>>

CollectStart ==
  /\ seed_asin \in SeedChoices
  /\ api_key \in {"", "KEY"}
  /\ do_keepa \in BOOLEAN
  /\ do_html \in BOOLEAN
  /\ max_cluster \in MaxClusterChoices
  /\ c_pc = "keepa"
  /\ k_try = 0
  /\ k_log = <<>>
  /\ keepa_requests = 0
  /\ rel = <<>>
  /\ keepa_err = <<>>
  /\ warnings = <<>>
  /\ h_url = 1
  /\ h_try = 0
  /\ html_ran = FALSE
  /\ rel_html = <<>>
  /\ all_asins = {}
  /\ all_asins_list = <<>>
  /\ errors = <<>>
  /\ stages = <<>>

\* lines 52-56: what the page does with the pair product_related returned
KeepaReturned(rel_list, err) ==
  /\ rel' = rel_list
  /\ keepa_err' = err
  /\ all_asins' = all_asins \cup Range(rel_list)
  /\ warnings' = IF err # <<>> /\ err[1] # ""
                 THEN Append(warnings, "Keepa warning: " \o err[1]) ELSE warnings
  /\ c_pc' = "html"

\* do_keepa unchecked (line 44)
KeepaOff ==
  /\ c_pc = "keepa"
  /\ ~do_keepa
  /\ c_pc' = "html"
  /\ UNCHANGED <<collectInputs, keepaVars, htmlVars, all_asins, all_asins_list,
                 pipelineVars>>

\* product_related without a key (keepa_client.py:15-16)
KeepaNoKey ==
  /\ c_pc = "keepa"
  /\ do_keepa
  /\ api_key = ""
  /\ KeepaReturned(<<>>, <<"No Keepa API Key">>)
  /\ UNCHANGED <<collectInputs, k_try, k_log, keepa_requests, htmlVars, all_asins_list,
                 pipelineVars>>

\* one pass of the loop of product_related (keepa_client.py:22-44)
KeepaAttempt ==
  /\ c_pc = "keepa"
  /\ do_keepa
  /\ api_key # ""
  /\ \E resp \in KeepaResponses :
       LET t == KeepaTry(resp, seed_asin)
       IN  /\ keepa_requests' = keepa_requests + 1
           /\ k_log' = Append(k_log, resp)
           /\ IF t.raised = ""
              THEN KeepaReturned(t.rel, t.err) /\ UNCHANGED k_try
              ELSE IF ~KeepaCatches(t.raised)
              THEN c_pc' = "raised" /\ UNCHANGED <<k_try, rel, keepa_err, warnings, all_asins>>
              ELSE IF k_try < KeepaRetries
              THEN /\ k_try' = k_try + 1
                   /\ UNCHANGED <<c_pc, rel, keepa_err, warnings, all_asins>>
              ELSE /\ KeepaReturned(<<>>, <<"Keepa request failed: " \o t.msg>>)
                   /\ UNCHANGED k_try
  /\ UNCHANGED <<collectInputs, htmlVars, all_asins_list, pipelineVars>>

\* do_html unchecked (line 58)
HtmlOff ==
  /\ c_pc = "html"
  /\ ~do_html
  /\ c_pc' = "merge"
  /\ UNCHANGED <<collectInputs, keepaVars, htmlVars, all_asins, all_asins_list,
                 pipelineVars>>

\* lines 60-62: what the page does with the list search_related_html returned
HtmlReturned(rel_list) ==
  /\ rel_html' = rel_list
  /\ all_asins' = all_asins \cup Range(rel_list)
  /\ c_pc' = "merge"
  /\ UNCHANGED <<h_url, h_try>>

\* search_related_html goes on to its next url, or returns [] after the last
HtmlNextUrl ==
  IF h_url = 1
  THEN h_url' = 2 /\ h_try' = 0 /\ UNCHANGED <<c_pc, rel_html, all_asins>>
  ELSE HtmlReturned(<<>>)

\* one pass of the loop of _get inside search_related_html
\* (amazon_html.py:233-241 and 53-63)
HtmlAttempt ==
  /\ c_pc = "html"
  /\ do_html
  /\ html_ran' = TRUE
  /\ \E resp \in SeedPages :
       LET found == _extract_related_asins(resp.doc)
       IN  IF GetTry(resp) = "raise"
           THEN c_pc' = "raised" /\ UNCHANGED <<h_url, h_try, rel_html, all_asins>>
           ELSE IF GetTry(resp) = "return"
           THEN (IF resp.text # "" /\ found # {}
                 THEN HtmlReturned(SortedList(found))
                 ELSE HtmlNextUrl)
           ELSE IF h_try < GetRetries
           THEN h_try' = h_try + 1 /\ UNCHANGED <<c_pc, h_url, rel_html, all_asins>>
           ELSE HtmlNextUrl
  /\ UNCHANGED <<collectInputs, keepaVars, all_asins_list, pipelineVars>>

\* lines 65-68: the comprehension over the set, sorted, cut to max_cluster
CleanAndCap(ids, seed, cap) ==
  LET kept == ListOfSet({a \in ids : a # "" /\ Len(a) = 10 /\ StrUpper(a) # seed}, 0)
  IN  Take(SortStrings([i \in 1..Len(kept) |-> StrUpper(kept[i])]), cap)

NeverStops(ids) == FALSE

\* `if not all_asins:` (line 72)
StopsWhenEmpty(ids) == ids = <<>>

\* lines 64-74: st.error and st.stop end the run when the list is empty
Merge ==
  /\ c_pc = "merge"
  /\ all_asins_list' = CleanAndCap(all_asins, seed_asin, max_cluster)
  /\ IF StopsWhenEmpty(CleanAndCap(all_asins, seed_asin, max_cluster))
     THEN /\ errors' = Append(errors, "No related ASINs found. Try another seed ASIN or enable another channel.")
          /\ c_pc' = "stopped"
     ELSE /\ c_pc' = "done"
          /\ UNCHANGED errors
  /\ UNCHANGED <<collectInputs, keepaVars, htmlVars, all_asins, stages>>

\* cfg.keyword_mining.bsr_correlation_window: unset (0), or the default
WindowCfgChoices == {0, 5}

\* a stage of the page starts: the call is logged, the callee is not run here
StageStep(from, to, called) ==
  /\ c_pc = from
  /\ c_pc' = to
  /\ stages' = stages \o called
  /\ UNCHANGED <<collectInputs, keepaVars, htmlVars, all_asins, all_asins_list, errors>>

\* lines 76-83: enrich_product_info
EnrichStage == StageStep("done", "enriched", <<"enrich">>)

\* lines 85-87: scrape_listing_text
ScrapeStage == StageStep("enriched", "scraped", <<"extract">>)

\* lines 89-105: mine_keywords_from_cluster, then the leaderboard download
MineStage == StageStep("scraped", "mined", <<"mine", "export">>)

\* line 109
AnnotateCondition(w) == w # 0 /\ do_keepa /\ api_key # ""

\* lines 107-131: attach_bsr_signal and its download, when the window, the
\* client and the key are there
TrendStage ==
  \E w \in WindowCfgChoices :
     StageStep("mined", "annotated",
               IF AnnotateCondition(w) THEN <<"annotate", "export">> ELSE <<>>)

\* lines 133-156: the debug expander and the ZIP download
ZipStage == StageStep("annotated", "finished", <<"export">>)

\* the page not running
CollectIdle ==
  /\ seed_asin = ""
  /\ api_key = ""
  /\ do_keepa = FALSE
  /\ do_html = FALSE
  /\ max_cluster = 0
  /\ c_pc = "idle"
  /\ k_try = 0
  /\ k_log = <<>>
  /\ keepa_requests = 0
  /\ rel = <<>>
  /\ keepa_err = <<>>
  /\ warnings = <<>>
  /\ h_url = 0
  /\ h_try = 0
  /\ html_ran = FALSE
  /\ rel_html = <<>>
  /\ all_asins = {}
  /\ all_asins_list = <<>>
  /\ errors = <<>>
  /\ stages = <<>>

(***************************************************************************)
(* amazon_html.py: the field parsers and scrape_listing_text               *)
(***************************************************************************)
MaxAsins == 2

BulletsCap == 2000

AplusCap == 3000

AplusMergedCap == 4000

\* str.replace(old, new)
RECURSIVE Replace(_, _, _)
Replace(s, old, new) ==
  IF s = "" THEN ""
  ELSE IF StartsAt(s, 1, old)
       THEN new \o Replace(SubSeq(s, Len(old) + 1, Len(s)), old, new)
       ELSE Head(s) \o Replace(Tail(s), old, new)

\* s.split(":", 1)[1] for a string holding ":"
AfterColon(s) ==
  LET p == CHOOSE q \in 1..Len(s) : Char(s, q) = ":" /\ \A r \in 1..(q - 1) : Char(s, r) # ":"
  IN  SubSeq(s, p + 1, Len(s))

\* list(dict.fromkeys(blocks))
RECURSIVE FromKeys(_)
FromKeys(blocks) ==
  IF blocks = <<>> THEN <<>>
  ELSE LET front == FromKeys(SubSeq(blocks, 1, Len(blocks) - 1))
           x == blocks[Len(blocks)]
       IN  IF x \in Range(front) THEN front ELSE Append(front, x)

\* element texts as get_text(strip=True) gives them
Texts(elements) == [i \in 1..Len(elements) |-> Strip(elements[i])]

\* None is written ""
_extract_title(doc) ==
  IF Strip(doc.productTitle) # "" THEN Strip(doc.productTitle)
  ELSE IF Strip(doc.h1) # "" THEN Strip(doc.h1)
  ELSE ""

_extract_bullets(doc) ==
  LET desktop == SelectSeq(Texts(doc.feature_li), LAMBDA t : t # "")
      mobile == SelectSeq(Texts(doc.feature_div), LAMBDA t : t # "" /\ Len(t) > 3)
      items == SelectSeq(Texts(doc.list_items), LAMBDA t : t # "" /\ Len(t) > 10)
      blocks == IF desktop # <<>> THEN desktop
                ELSE IF mobile # <<>> THEN mobile
                ELSE SubSeq(items, 1, Min2(6, Len(items)))
  IN  Take(JoinWith(FromKeys(blocks), " | "), BulletsCap)

\* the divs one selector of line 113 selects, in document order
AplusSelect(doc, sel) ==
  SelectSeq(doc.aplus_divs,
            LAMBDA d : CASE sel = 1 -> d.id = "aplus"
                         [] sel = 2 -> d.id = "aplus_feature_div"
                         [] OTHER -> Contains(d.id, "aplus"))

\* div.get_text(" ", strip=True): the stripped, non-empty text nodes of the
\* element (lines), joined by a blank
GetText(lines) == JoinWith(SelectSeq(Texts(lines), LAMBDA t : t # ""), " ")

\* lines 110-125
_extract_aplus(doc) ==
  LET selected == AplusSelect(doc, 1) \o AplusSelect(doc, 2) \o AplusSelect(doc, 3)
      texts == [i \in 1..Len(selected) |-> GetText(selected[i].lines)]
      long == SelectSeq(texts, LAMBDA t : t # "" /\ Len(t) > 30)
      expanders == SelectSeq(doc.expander_divs,
                             LAMBDA d : Contains(StrLower(d.name), "aplus"))
      etexts == SelectSeq([i \in 1..Len(expanders) |-> GetText(expanders[i].lines)],
                          LAMBDA t : t # "" /\ Len(t) > 30)
  IN  Take(JoinWith(IF long # <<>> THEN long ELSE etexts, " | "), AplusCap)

_extract_brand(doc) ==
  LET rows == SelectSeq(doc.detail_rows, LAMBDA r : Contains(StrLower(Strip(r.th)), "brand"))
      lis == SelectSeq(Texts(doc.detail_bullets),
                       LAMBDA t : Contains(t, ":") /\ Contains(StrLower(t), "brand"))
  IN  IF Strip(doc.byline) # ""
      THEN Strip(Replace(Replace(Replace(Strip(doc.byline), "Brand: ", ""),
                                 "Visit the ", ""), " Store", ""))
      ELSE IF rows # <<>> THEN Strip(rows[1].td)
      ELSE IF lis # <<>> THEN Strip(AfterColon(lis[1]))
      ELSE ""

PyOrSecond(x, y) == IF y # "" THEN y ELSE x

\* Python's `x or y` on strings and None (None is written "")
PyOr(x, y) == IF x # "" THEN x ELSE y

\* `if html:` on what _get returned (<<>> is None)
Usable(html) == html # <<>> /\ html[1].text # ""

NoBundle == [title |-> "", bullets |-> "", aplus |-> "", brand |-> ""]

\* lines 305-310: the fields after the mobile page
AfterMobile(html_m) ==
  IF Usable(html_m)
  THEN [title |-> PyOr(_extract_title(html_m[1].doc), ""),
        bullets |-> PyOr(_extract_bullets(html_m[1].doc), ""),
        aplus |-> PyOr(_extract_aplus(html_m[1].doc), ""),
        brand |-> PyOr(_extract_brand(html_m[1].doc), "")]
  ELSE NoBundle

\* the merge without the cut to the merged length
AplusMergeUncut(aplus, apl2) ==
  IF apl2 = "" THEN aplus
  ELSE IF aplus = "" THEN apl2
  ELSE IF ~Contains(aplus, apl2) THEN aplus \o " | " \o apl2
  ELSE aplus

\* lines 321-328
AplusMerge(aplus, apl2) ==
  IF apl2 = "" THEN aplus
  ELSE IF aplus = "" THEN apl2
  ELSE IF ~Contains(aplus, apl2) THEN Take(aplus \o " | " \o apl2, AplusMergedCap)
  ELSE aplus

\* lines 315-336: the fields after the desktop page, as out[a] stores them
ScrapeBundle(html_m, html_d) ==
  LET m == AfterMobile(html_m)
  IN  IF Usable(html_d)
      THEN [title |-> PyOr(PyOr(m.title, _extract_title(html_d[1].doc)), ""),
            bullets |-> PyOr(IF m.bullets = "" THEN _extract_bullets(html_d[1].doc)
                             ELSE m.bullets, ""),
            aplus |-> PyOr(AplusMerge(m.aplus, _extract_aplus(html_d[1].doc)), ""),
            brand |-> PyOr(PyOr(m.brand, _extract_brand(html_d[1].doc)), "")]
      ELSE [title |-> PyOr(m.title, ""), bullets |-> PyOr(m.bullets, ""),
            aplus |-> PyOr(m.aplus, ""), brand |-> PyOr(m.brand, "")]

\* long-form texts of 2112 and 3102 characters
LongFormA == Repeat("crisp bright floral coffee notes ", 64)

LongFormB == Repeat("even heat for a slow steady pour ", 94)

\* a lightweight page; its long-form expander block opens with a caption line
MobileDoc ==
  [NoDoc EXCEPT !.h1 = " Pour Over Kettle ",
                !.feature_div = <<"Gooseneck spout", "abc", "Gooseneck spout">>,
                !.expander_divs = <<[name |-> "aplus-module-1",
                                     lines |-> <<"Read more", LongFormA>>]>>,
                !.byline = "Visit the Acme Store"]

DesktopDoc ==
  [NoDoc EXCEPT !.productTitle = "Ceramic Coffee Dripper",
                !.h1 = "Dripper",
                !.feature_li = <<"Fits most mugs", " ", "Dishwasher safe">>,
                !.aplus_divs = <<[id |-> "aplus_feature_div",
                                  lines |-> <<"Brew a clean cup with the ceramic dripper">>]>>,
                !.detail_bullets = <<"Weight : 300 g", "Brand : Brewly">>]

BareDoc ==
  [NoDoc EXCEPT !.h1 = "Kettle",
                !.detail_rows = <<[th |-> "Colour", td |-> "Black"]>>]

\* a full page with a long-form block longer than the length one page keeps
LongDesktopDoc ==
  [NoDoc EXCEPT !.productTitle = "Gooseneck Kettle",
                !.aplus_divs = <<[id |-> "aplus", lines |-> <<LongFormB, "Visit the store">>]>>]

\* answers to a fetch of a listing page
ListingPages ==
  { Raising("Timeout", "Read timed out"),
    Raising("ConnectionError", "Connection refused"),
    Answer(404, "Not Found", NoDoc),
    Answer(200, "Robot Check", NoDoc),
    Answer(200, "<html>Enter the CAPTCHA</html>", DesktopDoc),
    Answer(200, "<html>mobile</html>", MobileDoc),
    Answer(200, "<html>desktop</html>", DesktopDoc),
    Answer(200, "<html>long desktop</html>", LongDesktopDoc) }

ExtractIds == {ASINS[1], ASINS[2]}

VARIABLES
  x_asins,      \* the asins argument
  x_pc,         \* "mobile", "desktop", "done", "raised"
  x_idx,        \* the position of `a` in asins
  x_try,        \* passes of the loop of the running _get
  html_m,       \* <<>> is None
  out,
  fetched,      \* per asin, what the two _get calls returned last
  fetch_log     \* the _get calls made, in order

extractVars == <<x_asins, x_pc, x_idx, x_try, html_m, out, fetched, fetch_log>>

EmptyDict == [a \in {} |-> NoBundle]

\* d[k] = v
DictSet(d, k, v) == [j \in DOMAIN d \cup {k} |-> IF j = k THEN v ELSE d[j]]

ExtractStart ==
  /\ \E n \in 0..MaxAsins : x_asins \in [1..n -> ExtractIds]
  /\ x_pc = "mobile"
  /\ x_idx = 1
  /\ x_try = 0
  /\ html_m = <<>>
  /\ out = EmptyDict
  /\ fetched = EmptyDict
  /\ fetch_log = <<>>

\* one pass of the loop of _get on the mobile page (lines 303-304)
MobileAttempt ==
  /\ x_pc = "mobile"
  /\ x_idx <= Len(x_asins)
  /\ fetch_log' = IF x_try = 0 THEN Append(fetch_log, <<x_asins[x_idx], "mobile">>)
                  ELSE fetch_log
  /\ \E resp \in ListingPages :
       IF GetTry(resp) = "raise"
       THEN x_pc' = "raised" /\ UNCHANGED <<x_try, html_m>>
       ELSE IF GetTry(resp) = "return"
       THEN x_pc' = "desktop" /\ x_try' = 0 /\ html_m' = <<resp>>
       ELSE IF x_try < GetRetries
       THEN x_try' = x_try + 1 /\ UNCHANGED <<x_pc, html_m>>
       ELSE x_pc' = "desktop" /\ x_try' = 0 /\ html_m' = <<>>
  /\ UNCHANGED <<x_asins, x_idx, out, fetched>>

\* lines 305-337 once the desktop _get has returned html_d
Stored(html_d) ==
  /\ out' = DictSet(out, x_asins[x_idx], ScrapeBundle(html_m, html_d))
  /\ fetched' = DictSet(fetched, x_asins[x_idx], [m |-> html_m, d |-> html_d])
  /\ x_idx' = x_idx + 1
  /\ x_pc' = "mobile"
  /\ x_try' = 0
  /\ html_m' = <<>>

\* one pass of the loop of _get on the desktop page (lines 313-314), and the
\* rest of the iteration when _get returns
DesktopAttempt ==
  /\ x_pc = "desktop"
  /\ fetch_log' = IF x_try = 0 THEN Append(fetch_log, <<x_asins[x_idx], "desktop">>)
                  ELSE fetch_log
  /\ \E resp \in ListingPages :
       IF GetTry(resp) = "raise"
       THEN x_pc' = "raised" /\ UNCHANGED <<x_idx, x_try, html_m, out, fetched>>
       ELSE IF GetTry(resp) = "return" THEN Stored(<<resp>>)
       ELSE IF x_try < GetRetries
       THEN x_try' = x_try + 1 /\ UNCHANGED <<x_pc, x_idx, html_m, out, fetched>>
       ELSE Stored(<<>>)
  /\ UNCHANGED x_asins

\* line 338
ReturnOut ==
  /\ x_pc = "mobile"
  /\ x_idx > Len(x_asins)
  /\ x_pc' = "done"
  /\ UNCHANGED <<x_asins, x_idx, x_try, html_m, out, fetched, fetch_log>>

\* scrape_listing_text not running
ExtractIdle ==
  /\ x_asins = <<>>
  /\ x_pc = "idle"
  /\ x_idx = 0
  /\ x_try = 0
  /\ html_m = <<>>
  /\ out = EmptyDict
  /\ fetched = EmptyDict
  /\ fetch_log = <<>>

(***************************************************************************)
(* amazon_html.py: enrich_product_info                                     *)
(***************************************************************************)
\* A float is written as the decimal text it was parsed from and None as "";
\* an int is written <<n>> and None <<>>.

\* str.replace(c, "") for each character c of chars
RemoveChars(s, chars) ==
  Concat([i \in 1..Len(s) |-> IF Char(s, i) \in chars THEN "" ELSE Char(s, i)])

\* the least position of s whose character satisfies Test, 0 when there is none
FirstPos(s, Test(_)) ==
  LET hits == {p \in 1..Len(s) : Test(p)}
  IN  IF hits = {} THEN 0 ELSE CHOOSE p \in hits : \A q \in hits : p <= q

\* truth of a float: not None and not zero
FloatTruthy(x) == \E i \in 1..Len(x) : Char(x, i) \in DigitSet \ {"0"}

\* lines 159-168; re.search(r"([0-9]+(\.[0-9]+)?)", t)
_parse_price(txt) ==
  LET t == Strip(RemoveChars(txt, {",", "£", "$", "€"}))
      p == FirstPos(t, LAMBDA q : IsDigitChar(Char(t, q)))
      e == SkipChars(t, p, DigitSet, Len(t))
      f == IF e + 1 <= Len(t) /\ Char(t, e) = "." /\ IsDigitChar(Char(t, e + 1))
           THEN SkipChars(t, e + 1, DigitSet, Len(t))
           ELSE e
  IN  IF p = 0 THEN "" ELSE SubSeq(t, p, f - 1)

\* lines 143-157; price_els holds the texts of the elements the four desktop
\* selectors find, in the order of the selectors
_extract_price(doc) ==
  LET vals == SelectSeq([i \in 1..Len(doc.price_els) |->
                           _parse_price(Strip(doc.price_els[i]))], FloatTruthy)
      mobile == _parse_price(Strip(doc.color_price))
  IN  IF vals # <<>> THEN vals[1]
      ELSE IF FloatTruthy(mobile) THEN mobile
      ELSE ""

\* STAR_RE.search(t), r"([0-9.]+)\s+out of 5": group 1, "" when nothing matches
STAR_RE_search(t) ==
  LET NumSet == DigitSet \cup {"."}
      RunEnd(p) == SkipChars(t, p, NumSet, Len(t))
      GapEnd(p) == SkipChars(t, RunEnd(p), {" ", "\t", "\n"}, Len(t))
      p == FirstPos(t, LAMBDA q : /\ Char(t, q) \in NumSet
                                  /\ GapEnd(q) > RunEnd(q)
                                  /\ StartsAt(t, GapEnd(q), "out of 5"))
  IN  IF p = 0 THEN "" ELSE SubSeq(t, p, RunEnd(p) - 1)

\* float(s) does not raise
FloatParses(s) ==
  /\ \E i \in 1..Len(s) : IsDigitChar(Char(s, i))
  /\ Cardinality({i \in 1..Len(s) : Char(s, i) = "."}) <= 1

\* lines 170-180; star_el is the text of #acrPopover, or else of span.a-icon-alt
_extract_rating(doc) ==
  LET m == STAR_RE_search(Strip(doc.star_el))
  IN  IF m # "" /\ FloatParses(m) THEN m ELSE ""

RECURSIVE ParseInt(_)
ParseInt(digits) ==
  IF digits = "" THEN 0
  ELSE 10 * ParseInt(SubSeq(digits, 1, Len(digits) - 1))
       + (CharIdx(Char(digits, Len(digits))) - CharIdx("0"))

\* INT_RE.search(t), r"([0-9][0-9,\.]*)": group 1, "" when nothing matches
INT_RE_search(t) ==
  LET p == FirstPos(t, LAMBDA q : IsDigitChar(Char(t, q)))
  IN  IF p = 0 THEN ""
      ELSE SubSeq(t, p, SkipChars(t, p, DigitSet \cup {",", "."}, Len(t)) - 1)

\* lines 182-203; review_el is the text of #acrCustomerReviewText or else of
\* the total-review-count span, review_link the text of the reviews link
_extract_reviews_count(doc) ==
  LET m1 == INT_RE_search(RemoveChars(Strip(doc.review_el), {","}))
      m2 == INT_RE_search(RemoveChars(Strip(doc.review_link), {","}))
  IN  IF m1 # ""
      THEN (IF Contains(m1, ".") THEN <<>> ELSE <<ParseInt(m1)>>)
      ELSE IF m2 # "" /\ ~Contains(m2, ".") THEN <<ParseInt(m2)>>
      ELSE <<>>

\* the marketplace of the run
Domain == "www.amazon.co.uk"

DP_URL(domain, asin) == "https://" \o domain \o "/dp/" \o asin \o "?th=1&psc=1"

MOBILE_URL(domain, asin) == "https://" \o domain \o "/gp/aw/d/" \o asin

\* a full page with every field of the row
MetaDesktopDoc ==
  [NoDoc EXCEPT !.productTitle = "Pour Over Coffee Maker",
                !.price_els = <<"", "£1,024.50">>,
                !.star_el = "4.6 out of 5 stars",
                !.review_el = "1,234 ratings",
                !.byline = "Visit the Hario Store"]

\* a lightweight page with a rating of zero and a price of zero
MetaMobileDoc ==
  [NoDoc EXCEPT !.h1 = "Coffee Maker",
                !.color_price = "$0.00",
                !.star_el = "0 out of 5",
                !.review_el = "1.2k ratings",
                !.review_link = "87"]

\* a page whose rating text does not parse
OddRatingDoc ==
  [NoDoc EXCEPT !.productTitle = "Dripper",
                !.price_els = <<"from 7">>,
                !.star_el = "rated 4..5  out of 5",
                !.review_link = "007 reviews"]

\* answers to a fetch of a product page
EnrichPages ==
  { Raising("Timeout", "Read timed out"),
    Answer(404, "Not Found", NoDoc),
    Answer(200, "<html>Enter the CAPTCHA</html>", MetaDesktopDoc),
    Answer(200, "<html>meta</html>", MetaDesktopDoc),
    Answer(200, "<html>mobile meta</html>", MetaMobileDoc),
    Answer(200, "<html>odd</html>", OddRatingDoc),
    Answer(200, "<html>bare</html>", BareDoc) }

VARIABLES
  e_asins,      \* the asins argument
  e_pc,         \* "desktop", "mobile", "done", "raised"
  e_idx,        \* the position of `a` in asins
  e_try,        \* passes of the loop of the running _get
  e_row,        \* title, price, rating, reviews, brand, url_used of the iteration
  rows,
  e_log         \* the _get calls made, in order

enrichVars == <<e_asins, e_pc, e_idx, e_try, e_row, rows, e_log>>

\* line 253
NoFields ==
  [title |-> "", price |-> "", rating |-> "", reviews |-> <<>>, brand |-> "",
   url_used |-> ""]

EnrichStart ==
  /\ \E n \in 0..MaxAsins : e_asins \in [1..n -> ExtractIds]
  /\ e_pc = "desktop"
  /\ e_idx = 1
  /\ e_try = 0
  /\ e_row = NoFields
  /\ rows = <<>>
  /\ e_log = <<>>

\* lines 257-264
AfterDesktopMeta(html, a) ==
  IF Usable(html)
  THEN [title |-> _extract_title(html[1].doc),
        price |-> _extract_price(html[1].doc),
        rating |-> _extract_rating(html[1].doc),
        reviews |-> _extract_reviews_count(html[1].doc),
        brand |-> _extract_brand(html[1].doc),
        url_used |-> DP_URL(Domain, a)]
  ELSE NoFields

\* lines 269-277
AfterMobileMeta(f, html2, a) ==
  IF Usable(html2)
  THEN [title |-> PyOr(f.title, _extract_title(html2[1].doc)),
        price |-> IF FloatTruthy(f.price) THEN f.price
                  ELSE _extract_price(html2[1].doc),
        rating |-> IF f.rating # "" THEN f.rating ELSE _extract_rating(html2[1].doc),
        reviews |-> IF f.reviews # <<>> THEN f.reviews
                    ELSE _extract_reviews_count(html2[1].doc),
        brand |-> PyOr(f.brand, _extract_brand(html2[1].doc)),
        url_used |-> PyOr(f.url_used, MOBILE_URL(Domain, a))]
  ELSE f

\* lines 279-288
EnrichRow(f, a) ==
  [asin |-> a, title |-> f.title, price |-> f.price, rating |-> f.rating,
   reviews |-> f.reviews, url |-> PyOr(f.url_used, DP_URL(Domain, a)),
   brand |-> f.brand, category |-> ""]

\* lines 279-289: the row is appended and the loop goes to the next asin
RowAppended(f) ==
  /\ rows' = Append(rows, EnrichRow(f, e_asins[e_idx]))
  /\ e_idx' = e_idx + 1
  /\ e_pc' = "desktop"
  /\ e_try' = 0
  /\ e_row' = NoFields

\* lines 257-266 once the desktop _get has returned html: the mobile page is
\* fetched when the title or the rating is missing
DesktopReturned(html) ==
  LET f == AfterDesktopMeta(html, e_asins[e_idx])
  IN  IF f.title = "" \/ f.rating = ""
      THEN e_pc' = "mobile" /\ e_try' = 0 /\ e_row' = f /\ UNCHANGED <<rows, e_idx>>
      ELSE RowAppended(f)

\* one pass of the loop of _get on the desktop page (lines 255-256), and the
\* rest of the iteration when _get returns
EnrichDesktopAttempt ==
  /\ e_pc = "desktop"
  /\ e_idx <= Len(e_asins)
  /\ e_log' = IF e_try = 0 THEN Append(e_log, <<e_asins[e_idx], "desktop">>)
              ELSE e_log
  /\ \E resp \in EnrichPages :
       IF GetTry(resp) = "raise"
       THEN e_pc' = "raised" /\ UNCHANGED <<e_idx, e_try, e_row, rows>>
       ELSE IF GetTry(resp) = "return" THEN DesktopReturned(<<resp>>)
       ELSE IF e_try < GetRetries
       THEN e_try' = e_try + 1 /\ UNCHANGED <<e_pc, e_idx, e_row, rows>>
       ELSE DesktopReturned(<<>>)
  /\ UNCHANGED e_asins

\* one pass of the loop of _get on the mobile page (lines 267-268), and the
\* rest of the iteration when _get returns
EnrichMobileAttempt ==
  /\ e_pc = "mobile"
  /\ e_log' = IF e_try = 0 THEN Append(e_log, <<e_asins[e_idx], "mobile">>)
              ELSE e_log
  /\ \E resp \in EnrichPages :
       IF GetTry(resp) = "raise"
       THEN e_pc' = "raised" /\ UNCHANGED <<e_idx, e_try, e_row, rows>>
       ELSE IF GetTry(resp) = "return"
       THEN RowAppended(AfterMobileMeta(e_row, <<resp>>, e_asins[e_idx]))
       ELSE IF e_try < GetRetries
       THEN e_try' = e_try + 1 /\ UNCHANGED <<e_pc, e_idx, e_row, rows>>
       ELSE RowAppended(e_row)
  /\ UNCHANGED e_asins

\* line 290
EnrichReturn ==
  /\ e_pc = "desktop"
  /\ e_idx > Len(e_asins)
  /\ e_pc' = "done"
  /\ UNCHANGED <<e_asins, e_idx, e_try, e_row, rows, e_log>>

\* enrich_product_info not running
EnrichIdle ==
  /\ e_asins = <<>>
  /\ e_pc = "idle"
  /\ e_idx = 0
  /\ e_try = 0
  /\ e_row = NoFields
  /\ rows = <<>>
  /\ e_log = <<>>

(***************************************************************************)
(* core/logging_utils.py: SimpleRateLimiter                                *)
(***************************************************************************)
\* Time is counted in sixths of a second.

\* keepa_client.py line 11: SimpleRateLimiter(qps=2.0)
Qps == 2

\* line 11: self.gap = 1.0 / qps
Gap == 6 \div Qps

\* calls of wait() in a run, and the last reading of the clock
MaxCalls == 4

MaxClock == 9

Threads == {1, 2}

\* line 16 with a sleep one tick short
SleepOneShort(delta) == Gap - delta - 1

\* line 16: the argument of time.sleep
SleepFor(delta) == Gap - delta

VARIABLES
  clock,        \* what time.time() returns now
  rl_last,      \* self.last
  w_pc,         \* per thread: "out", "now", "delta", "sleep", "write"
  w_now,        \* per thread, the local now
  w_delta,      \* per thread, the local delta
  w_wake,       \* per thread, the time at which time.sleep may return
  w_alone,      \* per thread: no other call of wait() ran during this one
  calls,        \* calls of wait() begun
  returns       \* the calls that returned, in order: time and w_alone

limiterVars == <<clock, rl_last, w_pc, w_now, w_delta, w_wake, w_alone, calls, returns>>

\* lines 10-12; time.time() is far above the gap when the limiter is made
LimiterStart ==
  /\ clock = Gap
  /\ rl_last = 0
  /\ w_pc = [t \in Threads |-> "out"]
  /\ w_now = [t \in Threads |-> 0]
  /\ w_delta = [t \in Threads |-> 0]
  /\ w_wake = [t \in Threads |-> 0]
  /\ w_alone = [t \in Threads |-> TRUE]
  /\ calls = 0
  /\ returns = <<>>

\* time passes
Tick ==
  /\ clock < MaxClock
  /\ clock' = clock + 1
  /\ UNCHANGED <<rl_last, w_pc, w_now, w_delta, w_wake, w_alone, calls, returns>>

\* line 14: now = time.time()
WaitNow(t) ==
  /\ w_pc[t] = "out"
  /\ calls < MaxCalls
  /\ calls' = calls + 1
  /\ w_now' = [w_now EXCEPT ![t] = clock]
  /\ w_pc' = [w_pc EXCEPT ![t] = "now"]
  /\ w_alone' = IF \A u \in Threads \ {t} : w_pc[u] = "out"
                THEN [w_alone EXCEPT ![t] = TRUE]
                ELSE [u \in Threads |-> IF u = t \/ w_pc[u] # "out" THEN FALSE
                                        ELSE w_alone[u]]
  /\ UNCHANGED <<clock, rl_last, w_delta, w_wake, returns>>

\* line 15: delta = now - self.last
WaitDelta(t) ==
  /\ w_pc[t] = "now"
  /\ w_delta' = [w_delta EXCEPT ![t] = w_now[t] - rl_last]
  /\ w_pc' = [w_pc EXCEPT ![t] = "delta"]
  /\ UNCHANGED <<clock, rl_last, w_now, w_wake, w_alone, calls, returns>>

\* lines 16-17: time.sleep(self.gap - delta) is entered when delta < self.gap
WaitSleep(t) ==
  /\ w_pc[t] = "delta"
  /\ IF w_delta[t] < Gap
     THEN /\ w_wake' = [w_wake EXCEPT ![t] = clock + SleepFor(w_delta[t])]
          /\ w_pc' = [w_pc EXCEPT ![t] = "sleep"]
     ELSE /\ w_pc' = [w_pc EXCEPT ![t] = "write"]
          /\ UNCHANGED w_wake
  /\ UNCHANGED <<clock, rl_last, w_now, w_delta, w_alone, calls, returns>>

\* line 17: time.sleep returns, not before the time asked for has passed
WaitWake(t) ==
  /\ w_pc[t] = "sleep"
  /\ clock >= w_wake[t]
  /\ w_pc' = [w_pc EXCEPT ![t] = "write"]
  /\ UNCHANGED <<clock, rl_last, w_now, w_delta, w_wake, w_alone, calls, returns>>

\* line 18: self.last = time.time(), and wait() returns: its locals are gone
WaitReturn(t) ==
  /\ w_pc[t] = "write"
  /\ rl_last' = clock
  /\ returns' = Append(returns, [at |-> clock, alone |-> w_alone[t]])
  /\ w_pc' = [w_pc EXCEPT ![t] = "out"]
  /\ w_now' = [w_now EXCEPT ![t] = 0]
  /\ w_delta' = [w_delta EXCEPT ![t] = 0]
  /\ w_wake' = [w_wake EXCEPT ![t] = 0]
  /\ w_alone' = [w_alone EXCEPT ![t] = TRUE]
  /\ UNCHANGED <<clock, calls>>

\* no limiter in use
LimiterIdle ==
  /\ clock = 0
  /\ rl_last = 0
  /\ w_pc = [t \in Threads |-> "idle"]
  /\ w_now = [t \in Threads |-> 0]
  /\ w_delta = [t \in Threads |-> 0]
  /\ w_wake = [t \in Threads |-> 0]
  /\ w_alone = [t \in Threads |-> TRUE]
  /\ calls = 0
  /\ returns = <<>>

vars ==
  <<mineVars, trendVars, collectVars, extractVars, getVars, enrichVars, limiterVars>>

MineInit == MineStart /\ TrendIdle /\ CollectIdle /\ ExtractIdle /\ GetIdle /\ EnrichIdle
  /\ LimiterIdle

MineNext ==
  \/ ProcessBundle /\ UNCHANGED <<trendVars, collectVars, extractVars, getVars, enrichVars, limiterVars>>
  \/ Build /\ UNCHANGED <<trendVars, collectVars, extractVars, getVars, enrichVars, limiterVars>>
  \/ Relax /\ UNCHANGED <<trendVars, collectVars, extractVars, getVars, enrichVars, limiterVars>>
  \/ Return /\ UNCHANGED <<trendVars, collectVars, extractVars, getVars, enrichVars, limiterVars>>
  \/ Rerun /\ UNCHANGED <<trendVars, collectVars, extractVars, getVars, enrichVars, limiterVars>>

SpecMine == MineInit /\ [][MineNext]_vars

TrendInit == TrendStart /\ MineIdle /\ CollectIdle /\ ExtractIdle /\ GetIdle /\ EnrichIdle
  /\ LimiterIdle

TrendNext ==
  \/ AnnotateCandidate /\ UNCHANGED <<mineVars, collectVars, extractVars, getVars, enrichVars, limiterVars>>
  \/ Broadcast /\ UNCHANGED <<mineVars, collectVars, extractVars, getVars, enrichVars, limiterVars>>

SpecTrend == TrendInit /\ [][TrendNext]_vars

CollectInit == CollectStart /\ MineIdle /\ TrendIdle /\ ExtractIdle /\ GetIdle /\ EnrichIdle
  /\ LimiterIdle

CollectNext ==
  \/ KeepaOff /\ UNCHANGED <<mineVars, trendVars, extractVars, getVars, enrichVars, limiterVars>>
  \/ KeepaNoKey /\ UNCHANGED <<mineVars, trendVars, extractVars, getVars, enrichVars, limiterVars>>
  \/ KeepaAttempt /\ UNCHANGED <<mineVars, trendVars, extractVars, getVars, enrichVars, limiterVars>>
  \/ HtmlOff /\ UNCHANGED <<mineVars, trendVars, extractVars, getVars, enrichVars, limiterVars>>
  \/ HtmlAttempt /\ UNCHANGED <<mineVars, trendVars, extractVars, getVars, enrichVars, limiterVars>>
  \/ Merge /\ UNCHANGED <<mineVars, trendVars, extractVars, getVars, enrichVars, limiterVars>>
  \/ EnrichStage /\ UNCHANGED <<mineVars, trendVars, extractVars, getVars, enrichVars, limiterVars>>
  \/ ScrapeStage /\ UNCHANGED <<mineVars, trendVars, extractVars, getVars, enrichVars, limiterVars>>
  \/ MineStage /\ UNCHANGED <<mineVars, trendVars, extractVars, getVars, enrichVars, limiterVars>>
  \/ TrendStage /\ UNCHANGED <<mineVars, trendVars, extractVars, getVars, enrichVars, limiterVars>>
  \/ ZipStage /\ UNCHANGED <<mineVars, trendVars, extractVars, getVars, enrichVars, limiterVars>>

SpecCollect == CollectInit /\ [][CollectNext]_vars

ExtractInit == ExtractStart /\ MineIdle /\ TrendIdle /\ CollectIdle /\ GetIdle /\ EnrichIdle
  /\ LimiterIdle

ExtractNext ==
  \/ MobileAttempt /\ UNCHANGED <<mineVars, trendVars, collectVars, getVars, enrichVars, limiterVars>>
  \/ DesktopAttempt /\ UNCHANGED <<mineVars, trendVars, collectVars, getVars, enrichVars, limiterVars>>
  \/ ReturnOut /\ UNCHANGED <<mineVars, trendVars, collectVars, getVars, enrichVars, limiterVars>>

SpecExtract == ExtractInit /\ [][ExtractNext]_vars

GetInit == GetStart /\ MineIdle /\ TrendIdle /\ CollectIdle /\ ExtractIdle /\ EnrichIdle
  /\ LimiterIdle

GetNext ==
  \/ GetAttempt /\ UNCHANGED <<mineVars, trendVars, collectVars, extractVars, enrichVars, limiterVars>>
  \/ GetGiveUp /\ UNCHANGED <<mineVars, trendVars, collectVars, extractVars, enrichVars, limiterVars>>

SpecGet == GetInit /\ [][GetNext]_vars

EnrichInit ==
  /\ EnrichStart /\ MineIdle /\ TrendIdle /\ CollectIdle /\ ExtractIdle /\ GetIdle
  /\ LimiterIdle

EnrichNext ==
  \/ EnrichDesktopAttempt
       /\ UNCHANGED <<mineVars, trendVars, collectVars, extractVars, getVars, limiterVars>>
  \/ EnrichMobileAttempt
       /\ UNCHANGED <<mineVars, trendVars, collectVars, extractVars, getVars, limiterVars>>
  \/ EnrichReturn
       /\ UNCHANGED <<mineVars, trendVars, collectVars, extractVars, getVars, limiterVars>>

SpecEnrich == EnrichInit /\ [][EnrichNext]_vars

pageVars == <<mineVars, trendVars, collectVars, extractVars, getVars, enrichVars>>

LimiterInit ==
  /\ LimiterStart /\ MineIdle /\ TrendIdle /\ CollectIdle /\ ExtractIdle /\ GetIdle
  /\ EnrichIdle

LimiterNext ==
  \/ Tick /\ UNCHANGED pageVars
  \/ \E t \in Threads : WaitNow(t) /\ UNCHANGED pageVars
  \/ \E t \in Threads : WaitDelta(t) /\ UNCHANGED pageVars
  \/ \E t \in Threads : WaitSleep(t) /\ UNCHANGED pageVars
  \/ \E t \in Threads : WaitWake(t) /\ UNCHANGED pageVars
  \/ \E t \in Threads : WaitReturn(t) /\ UNCHANGED pageVars

SpecLimiter == LimiterInit /\ [][LimiterNext]_vars

(***************************************************************************)
(* Properties of mine_keywords_from_cluster                                *)
(***************************************************************************)
Keywords(table) == {table[i].keyword : i \in 1..Len(table)}

HasRow(kw, d) ==
  \E i \in 1..Len(kw_table) : kw_table[i].keyword = kw /\ kw_table[i].df = d

\* the raw candidate pool: every n-gram that passed the per-n-gram noise filter
Pool == DOMAIN df_count

\* the listings of the ranking scenario have been mined
C1_Scenario ==
  /\ m_pc = "done"
  /\ NumIds = 2
  /\ {texts_by_asin[1].title, texts_by_asin[2].title} = {TitleA, TitleB}
  /\ \A i \in 1..2 : texts_by_asin[i].bullets = "" /\ texts_by_asin[i].aplus = ""
  /\ cfg.min_df = 2
  /\ cfg.ngram_range = <<1, 2>>
  /\ cfg.stopwords = {}

\* C1 as stated: in the ranking scenario "pour over" and "coffee" are in the
\* table with document frequency 2, above every row of document frequency 1
C1_AsStated ==
  C1_Scenario =>
    /\ HasRow("pour over", 2)
    /\ HasRow("coffee", 2)
    /\ \A i, j \in 1..Len(kw_table) :
         (kw_table[i].keyword \in {"pour over", "coffee"} /\ kw_table[j].df = 1) => i < j

\* C1 (amended): in the ranking scenario the table holds exactly "pour" and
\* "coffee", both with document frequency 2; "pour over" is no candidate at
\* all (its last token, "over", is a stopword); and both rows rank above every
\* candidate that appears in only one title
C1_Ranking ==
  C1_Scenario =>
    /\ Keywords(kw_table) = {"pour", "coffee"}
    /\ HasRow("pour", 2)
    /\ HasRow("coffee", 2)
    /\ "pour over" \notin Pool
    /\ \A k \in Pool : df_count[k] = 1 =>
          \A i \in 1..Len(kw_table) : RanksAbove(kw_table[i], RowOf(k))

C1_Witness == C1_Scenario /\ Len(kw_table) = 2 /\ \E k \in Pool : df_count[k] = 1

\* candidates that occur in the title or the bullets of some identifier
Eligible ==
  {k \in Pool : CounterGet(title_hits, k) + CounterGet(bullet_hits, k) >= 1}

\* mine has returned, and the build with the configured min_df (> 1) gave no
\* row although the pool is not empty
C2_Case ==
  /\ m_pc = "done"
  /\ cfg.min_df > 1
  /\ Pool # {}
  /\ \A k \in Eligible : df_count[k] < cfg.min_df

\* C2 as stated: after a relaxation the table is not empty and its keywords
\* are exactly the candidates of document frequency 1
C2_AsStated ==
  C2_Case =>
    /\ kw_table # <<>>
    /\ Keywords(kw_table) = {k \in Pool : df_count[k] = 1}

\* C2 (amended): after a relaxation the table is the build with min_df = 1: its
\* keywords are the candidates that occur in a title or in bullets, cut to the
\* max_top highest ranked; every row has a document frequency below the
\* configured min_df; the table is empty exactly when every candidate occurs
\* in long-form text only
C2_Relaxation ==
  C2_Case =>
    /\ Keywords(kw_table) \subseteq Eligible
    /\ Cardinality(Keywords(kw_table)) = Len(kw_table)
    /\ Len(kw_table) = Min2(Cardinality(Eligible), cfg.max_top)
    /\ \A i \in 1..Len(kw_table) :
          /\ kw_table[i].df = df_count[kw_table[i].keyword]
          /\ kw_table[i].df < cfg.min_df
    /\ \A k \in Eligible \ Keywords(kw_table) :
          \A i \in 1..Len(kw_table) : ~RanksAbove(RowOf(k), kw_table[i])
    /\ (kw_table = <<>>) <=> (Eligible = {})

C2_Witness ==
  /\ C2_Case
  /\ builds = 2
  /\ kw_table # <<>>
  /\ Pool \ Eligible # {}
  /\ \E i \in 1..Len(kw_table) : kw_table[i].df > 1

\* C3: a second run of mine on the same bundles and configuration returns the
\* table the first run returned
C3_Deterministic == (run = 2 /\ m_pc = "done") => kw_table = prev_table

\* identifiers with at least one non-empty field
ContributingIds ==
  {i \in 1..NumIds :
     texts_by_asin[i].title # "" \/ texts_by_asin[i].bullets # "" \/ texts_by_asin[i].aplus # ""}

\* C5: every row's document frequency is at most the number of identifiers
\* that have a non-empty title, bullets or long-form text
C5_DfBound ==
  m_pc = "done" =>
    \A i \in 1..Len(kw_table) : kw_table[i].df <= Cardinality(ContributingIds)

C5_Witness ==
  /\ m_pc = "done"
  /\ Cardinality(ContributingIds) < NumIds
  /\ \E i \in 1..Len(kw_table) :
        /\ kw_table[i].df = Cardinality(ContributingIds)
        /\ kw_table[i].title_hits + kw_table[i].bullet_hits + kw_table[i].aplus_hits
              > kw_table[i].df

C6_Phrases == {"tap to read", "read more", "visit the store", "product description"}

C6_PhraseWords == {Split(ph) : ph \in C6_Phrases}

\* the words a are consecutive words of b
IsSubPhrase(a, b) ==
  \E i \in 1..(Len(b) - Len(a) + 1) : SubSeq(b, i, i + Len(a) - 1) = a

NoBoilerplate(kw) ==
  LET words == Split(kw)
  IN  \A a \in C6_PhraseWords : ~IsSubPhrase(a, words)

\* C6: no candidate that survives the noise filter, and so no keyword of the
\* table, contains a UI-boilerplate phrase as a sub-phrase
C6_NoiseRejection ==
  /\ \A k \in Pool : NoBoilerplate(k)
  /\ \A i \in 1..Len(kw_table) : NoBoilerplate(kw_table[i].keyword)

C6_Witness ==
  /\ m_pc = "done"
  /\ \E i \in 1..NumIds : texts_by_asin[i].bullets = "Tap to read more about the product"
  /\ cfg.ngram_range = <<1, 3>>
  /\ HasRow("product", 1)

\* the column names the table has, in the words of the code
TableColumns ==
  {"keyword", "score", "df", "tf_weighted", "title_hits", "bullet_hits", "aplus_hits",
   "sample_asins"}

\* C12: when no n-gram of any bundle survives the noise filter (an empty
\* mapping included), mine returns a table of zero rows whose columns are
\* exactly the eight columns, and the build is not retried
C12_EmptyPool ==
  (m_pc = "done" /\ Pool = {}) =>
     /\ kw_table = <<>>
     /\ Range(kw_columns) = TableColumns
     /\ Len(kw_columns) = Cardinality(TableColumns)
     /\ builds = 1

C12_Witness ==
  /\ m_pc = "done"
  /\ Pool = {}
  /\ NumIds >= 1
  /\ cfg.min_df > 1
  /\ kw_columns # <<>>

\* the snippet of a text: the text itself up to the fixed length, else its
\* first characters
IsSnippetOf(snip, text) ==
  /\ Len(snip) <= SnippetLen
  /\ IsPrefix(snip, Strip(text))
  /\ Len(Strip(text)) <= SnippetLen => snip = Strip(text)
  /\ Len(Strip(text)) > SnippetLen => Len(snip) = SnippetLen

\* C13: the debug rows hold one entry per identifier of the input, in the
\* order of the input, whether or not the identifier produced a keyword and
\* whether or not the table is empty; an entry carries the identifier and
\* the title, bullets and long-form snippets cut to a fixed length
C13_Traceability ==
  /\ m_pc = "iterate" => Len(debug_rows) = m_idx - 1
  /\ m_pc \in {"built", "done"} => Len(debug_rows) = NumIds
  /\ \A i \in 1..Len(debug_rows) :
       /\ DOMAIN debug_rows[i] = {"asin", "title", "bullets", "aplus"}
       /\ debug_rows[i].asin = texts_by_asin[i].asin
       /\ IsSnippetOf(debug_rows[i].title, texts_by_asin[i].title)
       /\ IsSnippetOf(debug_rows[i].bullets, texts_by_asin[i].bullets)
       /\ IsSnippetOf(debug_rows[i].aplus, texts_by_asin[i].aplus)

C13_Witness ==
  /\ m_pc = "done"
  /\ NumIds = 2
  /\ kw_table # <<>>
  /\ Len(Strip(texts_by_asin[1].aplus)) > SnippetLen
  /\ KeysOf(Strip(texts_by_asin[1].aplus), cfg) = {}
  /\ Len(debug_rows[1].aplus) = SnippetLen
  /\ debug_rows[2].title = texts_by_asin[2].title

C13_WitnessEmptyTable ==
  m_pc = "done" /\ NumIds = 2 /\ kw_table = <<>> /\ Len(debug_rows) = 2

\* the three sets of surviving keys of every identifier, in input order
FieldKeys ==
  [i \in 1..NumIds |->
     [title |-> KeysOf(Strip(texts_by_asin[i].title), cfg),
      bullets |-> KeysOf(Strip(texts_by_asin[i].bullets), cfg),
      aplus |-> KeysOf(Strip(texts_by_asin[i].aplus), cfg)]]

Max3(a, b, c) == Max2(a, Max2(b, c))

\* the counters of keyword k are the numbers of identifiers that have it
C16_CountsOf(k, fk) ==
  LET T == {i \in 1..NumIds : k \in fk[i].title}
      B == {i \in 1..NumIds : k \in fk[i].bullets}
      A == {i \in 1..NumIds : k \in fk[i].aplus}
      t == CounterGet(title_hits, k)
      b == CounterGet(bullet_hits, k)
      a == CounterGet(aplus_hits, k)
      d == CounterGet(df_count, k)
  IN  /\ t = Cardinality(T)
      /\ b = Cardinality(B)
      /\ a = Cardinality(A)
      /\ d = Cardinality(T \cup B \cup A)
      /\ CounterGet(tf_weighted, k)
            = cfg.weight.title * t + cfg.weight.bullets * b + cfg.weight.aplus * a
      /\ Max3(t, b, a) <= d
      /\ d <= t + b + a

\* C16: once every bundle is processed, for every keyword the hits of a field
\* are the number of identifiers whose field has the keyword as a surviving
\* n-gram (once per identifier), the document frequency is the number of
\* identifiers that have it in some field, the weighted term frequency is the
\* weighted sum of the three hits, and max(hits) <= df <= sum(hits)
C16_SetSemantics ==
  m_pc \in {"built", "done"} =>
    \A fk \in {FieldKeys} :
      LET keys == DOMAIN df_count \cup DOMAIN tf_weighted \cup DOMAIN title_hits
                  \cup DOMAIN bullet_hits \cup DOMAIN aplus_hits
                  \cup UNION {fk[i].title \cup fk[i].bullets \cup fk[i].aplus : i \in 1..NumIds}
      IN  \A k \in keys : C16_CountsOf(k, fk)

\* "coffee maker" occurs twice in the bullets of the first identifier and
\* also in its title and in the title of the second one
C16_Witness ==
  /\ m_pc = "done"
  /\ NumIds = 2
  /\ texts_by_asin[1].bullets = "Coffee maker, coffee maker 10oz product description"
  /\ texts_by_asin[2].title = TitleB
  /\ "coffee maker" \in DOMAIN df_count
  /\ title_hits["coffee maker"] = 2
  /\ bullet_hits["coffee maker"] = 1
  /\ df_count["coffee maker"] = 2
  /\ LET grams == _ngrams(_tokenize(texts_by_asin[1].bullets), 1, 2)
     IN  Cardinality({j \in 1..Len(grams) : grams[j] = <<"coffee", "maker">>}) = 2

\* the n-gram with the measurement and unit tokens removed
C17_Core(ng) == SelectSeq(ng, LAMBDA t : ~_is_unit_token(t))

\* some phrase of the boilerplate list occurs in the n-gram's text as whole
\* words: no letter, digit or underscore touches it
C17_HasBoilerplate(ng) ==
  LET text == _ngram_to_text(ng)
  IN  \E ph \in UI_NOISE_PATTERNS : \E p \in 1..Len(text) :
         /\ StartsAt(text, p, ph)
         /\ (p = 1 \/ ~IsWordChar(Char(text, p - 1)))
         /\ (p + Len(ph) > Len(text) \/ ~IsWordChar(Char(text, p + Len(ph))))

\* the eight reasons of rejection
C17_Reasons(ng, stop) ==
  LET core == C17_Core(ng)
      n == Len(core)
      joined == _ngram_to_text(core)
  IN  \/ C17_HasBoilerplate(ng)
      \/ n = 0
      \/ n = 1 /\ (core[1] \in stop \/ IsDigitStr(core[1]) \/ core[1] \in DOMAIN_NOISE)
      \/ n >= 1 /\ (core[1] \in stop \/ core[n] \in stop)
      \/ n >= 1 /\ 2 * Cardinality({j \in 1..n : core[j] \in stop}) >= n
      \/ n >= 1 /\ \A j \in 1..Len(joined) : ~IsLowerChar(Char(joined, j))
      \/ n >= 1 /\ Len(joined) <= 2
      \/ \E j \in 1..n : core[j] \in {"-", "--", "+"}

\* for every pool text and every n-gram range and stopword set of Configs:
\* the candidates the code rejects, those the reasons reject, and the texts
\* of those no reason rejects; computed once
C17_Table ==
  { LET cands == Range(_ngrams(_tokenize(t), c.range[1], c.range[2]))
        stop == EN_STOPWORDS \cup c.stop
    IN  [text |-> t, range |-> c.range, stop |-> c.stop,
         by_code |-> {ng \in cands : _is_noise_ngram(ng, stop)},
         by_reasons |-> {ng \in cands : C17_Reasons(ng, stop)},
         kept |-> {_ngram_to_text(ng) : ng \in {g \in cands : ~C17_Reasons(g, stop)}}] :
      t \in FieldTexts,
      c \in {[range |-> k.ngram_range, stop |-> k.stopwords] : k \in Configs} }

C17_Entry(text) ==
  CHOOSE e \in C17_Table :
     e.text = text /\ e.range = cfg.ngram_range /\ e.stop = cfg.stopwords

\* C17: an n-gram is rejected by the noise filter if and only if one of the
\* eight reasons holds; the keys counted for a field of an identifier are the
\* texts of the candidates of the field that no reason rejects
C17_NoiseFilter ==
  \A i \in 1..NumIds :
     \A text \in {Strip(texts_by_asin[i].title), Strip(texts_by_asin[i].bullets),
                  Strip(texts_by_asin[i].aplus)} :
        LET e == C17_Entry(text)
        IN  /\ e.by_code = e.by_reasons
            /\ m_pc \in {"built", "done"} => KeysOf(text, cfg) = e.kept

\* "stainless steel", two domain-noise words, is a keyword, while "stainless"
\* alone is not
C17_Witness ==
  /\ m_pc = "done"
  /\ NumIds = 2
  /\ texts_by_asin[1].title = TitleA
  /\ texts_by_asin[2].aplus = LongText
  /\ <<"--", "ab">> \in C17_Entry(Strip(LongText)).by_code
  /\ <<"1.2.3.4">> \in C17_Entry(Strip(LongText)).by_code
  /\ "stainless steel" \in DOMAIN df_count
  /\ "stainless" \notin DOMAIN df_count
  /\ "steel" \in DOMAIN_NOISE

\* the candidates with df >= min_df that pass the table filters (no
\* boilerplate phrase, not long-form only)
C18_Survivors ==
  {k \in Pool : /\ df_count[k] >= cfg.min_df
                /\ CounterGet(title_hits, k) + CounterGet(bullet_hits, k) >= 1
                /\ ~C17_HasBoilerplate(Split(k))}

\* C18: every returned row has title_hits + bullet_hits >= 1 and df >= min_df,
\* except that rows with df < min_df appear only when min_df > 1 and no
\* candidate with df >= min_df passes the table filters; the table is built
\* at most twice, and once when min_df <= 1
C18_RowInvariant ==
  /\ builds <= 2
  /\ cfg.min_df <= 1 => builds <= 1
  /\ m_pc = "done" =>
       /\ \A i \in 1..Len(kw_table) : kw_table[i].title_hits + kw_table[i].bullet_hits >= 1
       /\ (\E i \in 1..Len(kw_table) : kw_table[i].df < cfg.min_df) =>
             (cfg.min_df > 1 /\ C18_Survivors = {})

C18_Witness ==
  /\ m_pc = "done"
  /\ builds = 2
  /\ cfg.min_df = 3
  /\ Len(kw_table) >= 2
  /\ \E i \in 1..Len(kw_table) : kw_table[i].df = 2
  /\ \E i \in 1..Len(kw_table) : kw_table[i].df = 1
  /\ \E k \in Pool \ Keywords(kw_table) :
        CounterGet(title_hits, k) + CounterGet(bullet_hits, k) = 0

\* row a has a larger key (score, df, tf_weighted) than row b
C19_KeyAbove(a, b) ==
  LET ka == <<a.score, a.df, a.tf_weighted>>
      kb == <<b.score, b.df, b.tf_weighted>>
  IN  \E p \in 1..3 : ka[p] > kb[p] /\ \A q \in 1..(p - 1) : ka[q] = kb[q]

\* the candidates that pass the filters of the build the table comes from
C19_Survivors ==
  LET min_df_used == IF builds = 2 THEN 1 ELSE cfg.min_df
  IN  {k \in Pool : /\ df_count[k] >= min_df_used
                    /\ CounterGet(title_hits, k) + CounterGet(bullet_hits, k) >= 1
                    /\ ~C17_HasBoilerplate(Split(k))}

\* C19: the returned table is ordered non-increasingly by (score, df,
\* tf_weighted), has at most max_top rows, and when more candidates pass the
\* filters its rows are the max_top highest-ranked of them
C19_SortCap ==
  m_pc = "done" =>
    /\ \A i, j \in 1..Len(kw_table) : i < j => ~C19_KeyAbove(kw_table[j], kw_table[i])
    /\ Len(kw_table) <= cfg.max_top
    /\ Len(kw_table) = Min2(Cardinality(C19_Survivors), cfg.max_top)
    /\ Keywords(kw_table) \subseteq C19_Survivors
    /\ \A k \in C19_Survivors \ Keywords(kw_table) :
          \A i \in 1..Len(kw_table) :
             /\ ~C19_KeyAbove(RowOf(k), kw_table[i])
             /\ kw_table[i].keyword # k

\* more candidates than max_top pass the filters, and one that is processed
\* first ranks below the rows returned
C19_Witness ==
  /\ m_pc = "done"
  /\ cfg.max_top = 2
  /\ Len(kw_table) = 2
  /\ Cardinality(C19_Survivors) > 2
  /\ C19_KeyAbove(kw_table[1], kw_table[2])
  /\ df_order[1] \in C19_Survivors \ Keywords(kw_table)
  /\ C19_KeyAbove(kw_table[2], RowOf(df_order[1]))

\* the identifiers that contributed keyword k in some field, in input order
C20_Contributors(k) ==
  LET fk == FieldKeys
      ids == SelectSeq([i \in 1..NumIds |-> i],
                       LAMBDA i : k \in fk[i].title \cup fk[i].bullets \cup fk[i].aplus)
  IN  [j \in 1..Len(ids) |-> texts_by_asin[ids[j]].asin]

\* C20: on every returned row sample_asins lists the first 8 identifiers that
\* contributed the keyword, in input order (all of them when there are 8 or
\* fewer)
C20_FirstContributors ==
  m_pc = "done" =>
    \A i \in 1..Len(kw_table) :
       kw_table[i].sample_asins
          = JoinWith(Take(C20_Contributors(kw_table[i].keyword), SampleCap), ",")

\* what the code does keep while there are at most 8 contributors: the list
\* holds every contributor once, in some order
C20_AllContributors ==
  m_pc = "done" =>
    \A i \in 1..Len(kw_table) :
       LET c == C20_Contributors(kw_table[i].keyword)
       IN  Len(c) <= SampleCap =>
             \E f \in [1..Len(c) -> 1..Len(c)] :
                /\ \A a, b \in 1..Len(c) : a # b => f[a] # f[b]
                /\ kw_table[i].sample_asins = JoinWith([j \in 1..Len(c) |-> c[f[j]]], ",")

(***************************************************************************)
(* Properties of attach_bsr_signal                                         *)
(***************************************************************************)
C7_Series == << <<0, 100>>, <<1, 90>> >>

C7_Single(w) ==
  /\ b_pc = "done"
  /\ bsr_answers = <<[raised |-> FALSE, series |-> C7_Series]>>
  /\ window = w

C7_AllEmpty ==
  /\ b_pc = "done"
  /\ \A i \in 1..Len(bsr_answers) :
        ~bsr_answers[i].raised /\ bsr_answers[i].series = <<>>

\* C7 as stated: series [(0,100),(1,90)] with window = 1 gives delta 10 and
\* "Positive"; all series empty gives "Neutral" and average 0.0
C7_AsStated ==
  /\ C7_Single(1) => (deltas = <<10>> /\ label = "Positive")
  /\ C7_AllEmpty => (label = "Neutral" /\ avg_delta = 0)

\* C7 (amended): series [(0,100),(1,90)] with window = 1 compares the last
\* point with itself: delta 0, "Neutral", average 0.0; with window = 2 it gives
\* delta 10, "Positive", average 10.0; all series empty gives "Neutral", 0.0
C7_Overlay ==
  /\ C7_Single(1) => (deltas = <<0>> /\ label = "Neutral" /\ avg_delta = 0)
  /\ C7_Single(2) => (deltas = <<10>> /\ label = "Positive" /\ avg_delta = 1000)
  /\ C7_AllEmpty => (deltas = <<>> /\ label = "Neutral" /\ avg_delta = 0)

C7_Witness == C7_Single(1) /\ deltas = <<0>> /\ Len(bsr_out) = 2

OverlayColumns == {"bsr_sync_signal", "bsr_avg_delta_sample"}

\* the mean of the deltas is above, below or at zero
MeanSign == IF deltas = <<>> THEN 0 ELSE SumSeq(deltas)

\* r hundredths is the mean of the deltas rounded to two decimals
IsRoundedMean(r) ==
  IF deltas = <<>> THEN r = 0
  ELSE /\ 2 * Len(deltas) * r - Len(deltas) <= 200 * SumSeq(deltas)
       /\ 200 * SumSeq(deltas) <= 2 * Len(deltas) * r + Len(deltas)

C14_Rows ==
  b_pc = "done" =>
    /\ Len(bsr_out) = Len(bsr_table)
    /\ \A i \in 1..Len(bsr_table) :
         /\ DOMAIN bsr_table[i] \cap OverlayColumns = {}
         /\ DOMAIN bsr_out[i] = DOMAIN bsr_table[i] \cup OverlayColumns
         /\ \A c \in DOMAIN bsr_table[i] : bsr_out[i][c] = bsr_table[i][c]
         /\ bsr_out[i].bsr_sync_signal = label
         /\ bsr_out[i].bsr_avg_delta_sample = avg_delta
    /\ label = (IF MeanSign > 0 THEN "Positive"
                ELSE IF MeanSign < 0 THEN "Negative" ELSE "Neutral")
    /\ IsRoundedMean(avg_delta)

\* C14: annotate returns the rows of its input in the same order with the
\* same values in the original columns, plus two columns that hold on every
\* row one label and one rounded mean delta; the label is "Positive" for a
\* mean above zero, "Negative" below zero, else "Neutral"; the table given
\* is never changed
C14_Broadcast == [](C14_Rows) /\ [][bsr_table' = bsr_table]_vars

C14_Witness ==
  /\ b_pc = "done"
  /\ Len(bsr_out) = 2
  /\ Len(deltas) = 2
  /\ label = "Negative"
  /\ bsr_out[2].bsr_avg_delta_sample < 0
  /\ bsr_out[1].keyword = "coffee"

\* the series of candidate i is available with at least 2 points
C21_Available(i) == ~bsr_answers[i].raised /\ Len(bsr_answers[i].series) >= 2

\* the point of the series that has exactly n points with a smaller timestamp
C21_PointAt(series, n) ==
  CHOOSE pt \in Range(series) :
     Cardinality({q \in Range(series) : q[1] < pt[1]}) = n

\* the two points compared: index max(0, len - window) and the last index of
\* the series in timestamp order
C21_Prev(i) ==
  C21_PointAt(bsr_answers[i].series, Max2(0, Len(bsr_answers[i].series) - window))

C21_Last(i) == C21_PointAt(bsr_answers[i].series, Len(bsr_answers[i].series) - 1)

\* both compared values are present (not None) and not 0
C21_Usable(i) ==
  /\ Len(C21_Prev(i)) = 2 /\ C21_Prev(i)[2] # 0
  /\ Len(C21_Last(i)) = 2 /\ C21_Last(i)[2] # 0

\* the deltas of the candidates of the set, in the order of the candidates
RECURSIVE C21_Deltas(_, _)
C21_Deltas(i, contributes) ==
  IF i > Len(candidate_asins) THEN <<>>
  ELSE (IF i \in contributes THEN <<C21_Prev(i)[2] - C21_Last(i)[2]>> ELSE <<>>)
          \o C21_Deltas(i + 1, contributes)

\* C21 as stated: every candidate whose series is available with at least 2
\* points contributes one delta, the others none
C21_AsStated ==
  b_pc = "done" =>
    Len(deltas) = Cardinality({i \in 1..Len(candidate_asins) : C21_Available(i)})

\* C21 (amended): a candidate contributes one delta, the value at index
\* max(0, len - window) of the timestamp-sorted series minus the last value,
\* when its series is available with at least 2 points and both values are
\* present and not 0; every other candidate (series unavailable, fewer than 2
\* points, lookup raised, a compared value None or 0) contributes nothing, is
\* not counted in the mean, and does not stop the candidates after it
C21_Contributions ==
  /\ b_pc = "loop" => Len(deltas) <= b_idx - 1
  /\ b_pc = "done" =>
       /\ b_idx = Len(candidate_asins) + 1
       /\ deltas = C21_Deltas(1, {i \in 1..Len(candidate_asins) :
                                     C21_Available(i) /\ C21_Usable(i)})
       /\ IsRoundedMean(avg_delta)

\* the first candidate's lookup raises, the second has two points and
\* contributes, and the mean is its delta alone
C21_Witness ==
  /\ b_pc = "done"
  /\ Len(candidate_asins) = 2
  /\ bsr_answers[1].raised
  /\ bsr_answers[2].series = << <<1, 90>>, <<0, 100>> >>
  /\ window = 5
  /\ deltas = <<10>>
  /\ avg_delta = 1000

\* a series of two points whose last value is None: nothing is contributed
C21_WitnessNone ==
  /\ b_pc = "done"
  /\ Len(candidate_asins) = 2
  /\ bsr_answers[1].series = << <<0, 100>>, <<1>> >>
  /\ bsr_answers[2].series = << <<0, 50>>, <<1, 80>>, <<2, 70>> >>
  /\ window = 2
  /\ deltas = <<10>>

(***************************************************************************)
(* Properties of the collection step                                       *)
(***************************************************************************)
Collected == c_pc \in {"done", "stopped"}

IsAlnumChar(c) == IsLowerChar(c) \/ IsUpperChar(c) \/ IsDigitChar(c)

C4_NoSeed == \A i \in 1..Len(all_asins_list) : all_asins_list[i] # StrUpper(seed_asin)

C4_NoDuplicate ==
  \A i, j \in 1..Len(all_asins_list) :
     i # j => StrLower(all_asins_list[i]) # StrLower(all_asins_list[j])

C4_TenAlnum ==
  \A i \in 1..Len(all_asins_list) :
     /\ Len(all_asins_list[i]) = 10
     /\ \A k \in 1..10 : IsAlnumChar(Char(all_asins_list[i], k))

\* C4: the merged related-id list never contains the upper-cased seed id,
\* never two entries equal case-insensitively, and only entries of exactly 10
\* alphanumeric characters
C4_DedupValidity == Collected => (C4_NoSeed /\ C4_NoDuplicate /\ C4_TenAlnum)

\* the parts of C4 the code does keep
C4_SeedAndDuplicates ==
  Collected =>
    /\ C4_NoSeed
    /\ C4_NoDuplicate
    /\ \A i \in 1..Len(all_asins_list) : Len(all_asins_list[i]) = 10

KeepaFinished == do_keepa /\ c_pc \in {"html", "merge", "done", "stopped"}

\* a response that is a transport failure or is malformed
FailedResponse(resp) ==
  \/ resp.raises \in {"Timeout", "ConnectionError"}
  \/ resp.raises = "" /\ resp.status_code >= 400
  \/ resp.raises = "" /\ resp.json.kind # "dict"
  \/ resp.raises = "" /\ resp.json.error = "" /\ resp.json.products # <<>>
       /\ resp.json.products[1].kind # "dict"

ApiErrorResponse(resp) ==
  resp.raises = "" /\ resp.status_code = 200 /\ resp.json.kind = "dict"
    /\ resp.json.error # ""

KeepaFailed ==
  /\ KeepaFinished
  /\ \/ api_key = ""
     \/ Len(k_log) = KeepaRetries + 1 /\ \A i \in 1..Len(k_log) : FailedResponse(k_log[i])
     \/ k_log # <<>> /\ ApiErrorResponse(k_log[Len(k_log)])

\* C10: whatever the structured channel meets (no key, a failure on every
\* attempt, a malformed response, an API error field), product_related raises
\* nothing and returns an empty list with a non-empty warning, with no request
\* when the key is missing; the scrape channel, when enabled, still runs and
\* its ids are merged
C10_Isolation ==
  /\ c_pc # "raised"
  /\ api_key = "" => keepa_requests = 0
  /\ KeepaFailed =>
       /\ rel = <<>>
       /\ keepa_err # <<>>
       /\ keepa_err[1] # ""
       /\ warnings = <<"Keepa warning: " \o keepa_err[1]>>
  /\ (KeepaFailed /\ do_html /\ c_pc \in {"merge", "done", "stopped"}) => html_ran
  /\ (KeepaFailed /\ do_html /\ Collected) =>
       /\ Range(all_asins_list) \subseteq Range(rel_html)
       /\ \A i \in 1..Len(rel_html) :
            \/ rel_html[i] = seed_asin
            \/ rel_html[i] \in Range(all_asins_list)
            \/ Len(all_asins_list) = max_cluster

C10_Witness ==
  /\ c_pc = "done"
  /\ KeepaFailed
  /\ Len(k_log) = KeepaRetries + 1
  /\ k_log[1].raises = "Timeout"
  /\ k_log[2].json.kind = "invalid"
  /\ do_html
  /\ Len(all_asins_list) = 3

(***************************************************************************)
(* Properties of scrape_listing_text                                       *)
(***************************************************************************)
\* what a page, as _get returned it, yields for a field ("" when the fetch
\* failed)
Yield(html, field) ==
  IF ~Usable(html) THEN ""
  ELSE CASE field = "title" -> _extract_title(html[1].doc)
         [] field = "bullets" -> _extract_bullets(html[1].doc)
         [] field = "brand" -> _extract_brand(html[1].doc)

PrecedenceFields == {"title", "bullets", "brand"}

\* C8: for title, bullets and brand, a non-empty value of the lightweight
\* (mobile) page is in the bundle unchanged whatever the full (desktop) page
\* yields; the full page's value is used only when the lightweight value is
\* empty or the lightweight fetch failed
C8_Precedence ==
  \A a \in DOMAIN out : \A f \in PrecedenceFields :
     LET light == Yield(fetched[a].m, f)
         full == Yield(fetched[a].d, f)
     IN  /\ light # "" => out[a][f] = light
         /\ light = "" => out[a][f] = full

C8_Witness ==
  \E a \in DOMAIN out :
     /\ Usable(fetched[a].m)
     /\ Usable(fetched[a].d)
     /\ Yield(fetched[a].m, "title") # ""
     /\ Yield(fetched[a].d, "title") # ""
     /\ Yield(fetched[a].d, "title") # Yield(fetched[a].m, "title")
     /\ out[a].title = Yield(fetched[a].m, "title")
     /\ Yield(fetched[a].m, "bullets") = ""
     /\ out[a].bullets = Yield(fetched[a].d, "bullets")
     /\ out[a].bullets # ""

\* the _get calls scrape_listing_text makes for a list of ids
RECURSIVE FetchPlan(_)
FetchPlan(ids) ==
  IF ids = <<>> THEN <<>>
  ELSE <<<<ids[1], "mobile">>, <<ids[1], "desktop">>>> \o FetchPlan(Tail(ids))

\* C9: whatever the fetches do (success, timeout or connection error, non-200
\* status, bot-check page), extract fetches for all N ids in input order,
\* raises nothing, and returns one bundle per distinct id; an id whose two
\* fetches both fail gets the all-empty bundle
C9_FailureIsolation ==
  /\ x_pc # "raised"
  /\ x_pc = "done" =>
       /\ fetch_log = FetchPlan(x_asins)
       /\ DOMAIN out = Range(x_asins)
       /\ \A a \in DOMAIN out :
            (fetched[a].m = <<>> /\ fetched[a].d = <<>>) => out[a] = NoBundle

C9_Witness ==
  /\ x_pc = "done"
  /\ Len(x_asins) = 2
  /\ x_asins[1] # x_asins[2]
  /\ fetched[x_asins[1]] = [m |-> <<>>, d |-> <<>>]
  /\ out[x_asins[1]] = NoBundle
  /\ out[x_asins[2]].title # ""

\* the long-form fragment a page yields ("" when the fetch failed)
C22_Fragment(html) == IF Usable(html) THEN _extract_aplus(html[1].doc) ELSE ""

\* C22: the long-form text of a bundle is the lightweight page's fragment
\* alone when the full page's fragment is empty or a substring of it, the
\* full page's fragment alone when the lightweight one is empty, otherwise the
\* lightweight fragment, a separator and the full fragment, cut to the
\* maximum merged length; it is never longer than that length
C22_LongFormMerge ==
  \A a \in DOMAIN out :
     LET light == C22_Fragment(fetched[a].m)
         full == C22_Fragment(fetched[a].d)
     IN  /\ Len(out[a].aplus) <= AplusMergedCap
         /\ IF light = "" THEN out[a].aplus = full
            ELSE IF full = "" \/ Contains(light, full) THEN out[a].aplus = light
            ELSE out[a].aplus = Take(light \o " | " \o full, AplusMergedCap)

\* both pages give a long fragment, neither holds the other, and the merged
\* text is cut
C22_Witness ==
  \E a \in DOMAIN out :
     LET light == C22_Fragment(fetched[a].m)
         full == C22_Fragment(fetched[a].d)
     IN  /\ light # "" /\ full # ""
         /\ Len(full) = AplusCap
         /\ ~Contains(light, full)
         /\ Len(light) + 3 + Len(full) > AplusMergedCap
         /\ Len(out[a].aplus) = AplusMergedCap

\* the full page's fragment is part of the lightweight one: it is not added
C22_WitnessSubstring ==
  \E a \in DOMAIN out :
     /\ C22_Fragment(fetched[a].d) # ""
     /\ out[a].aplus = C22_Fragment(fetched[a].m)
     /\ Contains(out[a].aplus, C22_Fragment(fetched[a].d))

\* the lines of the long-form blocks of a fetched page that are made of a
\* known boilerplate phrase
C23_NoiseLines(html) ==
  IF ~Usable(html) THEN {}
  ELSE LET blocks == html[1].doc.aplus_divs \o html[1].doc.expander_divs
           all == UNION { { Strip(l) : l \in Range(blocks[i].lines) } :
                          i \in 1..Len(blocks) }
       IN  { l \in all : StrLower(l) \in UI_NOISE_PATTERNS }

\* C23: the long-form text of a returned bundle holds no noise line of the
\* long-form blocks of the pages it was taken from
C23_NoiseStripped ==
  \A a \in DOMAIN out :
     \A line \in C23_NoiseLines(fetched[a].m) \cup C23_NoiseLines(fetched[a].d) :
        ~Contains(out[a].aplus, line)

(***************************************************************************)
(* Properties of the run of the page                                       *)
(***************************************************************************)
PastMerge == c_pc \in {"done", "stopped", "enriched", "scraped", "mined", "annotated", "finished"}

StageOrder == <<"enrich", "extract", "mine", "annotate">>

\* the stages started, the exports left out
NonExport(log) == SelectSeq(log, LAMBDA x : x # "export")

\* C11: with an empty merged list the run ends in a terminal state with a
\* message to the user and no stage (enrich, extract, mine, annotate, export)
\* is ever started; with a non-empty list the stages start in the order enrich,
\* extract, mine and, optionally, annotate
C11_EmptyHalt ==
  /\ (PastMerge /\ all_asins_list = <<>>) =>
        /\ c_pc = "stopped"
        /\ stages = <<>>
        /\ Len(errors) = 1
        /\ errors[1] # ""
        /\ ~ENABLED CollectNext
  /\ (PastMerge /\ all_asins_list # <<>>) => (c_pc # "stopped" /\ errors = <<>>)
  /\ ~PastMerge => stages = <<>>
  /\ IsPrefix(NonExport(stages), StageOrder)
  /\ c_pc = "finished" => Len(NonExport(stages)) >= 3

C11_Witness ==
  /\ c_pc = "stopped"
  /\ do_keepa
  /\ keepa_requests > 0
  /\ html_ran
  /\ h_url = 2
  /\ errors # <<>>
(***************************************************************************)
(* Properties of _get                                                      *)
(***************************************************************************)
\* an attempt that answered with status 200 and a body without a bot-check
\* marker
CleanAttempt(resp) ==
  /\ resp.raises = ""
  /\ resp.status_code = 200
  /\ ~Contains(resp.text, "Robot Check")
  /\ ~Contains(StrLower(resp.text), "captcha")

\* C15: _get makes at most retries + 1 attempts; it returns a body only from
\* an attempt with status 200 and no bot-check marker and stops at the first
\* such attempt; a bot-check page, another status and a raised error are each
\* followed by a sleep and the next attempt; after retries + 1 failed attempts
\* it returns None, and it never raises
C15_RetryBudget ==
  /\ g_pc # "raised"
  /\ Len(g_log) <= g_retries + 1
  /\ \A k \in 1..(Len(g_log) - 1) : ~CleanAttempt(g_log[k])
  /\ g_pc = "loop" =>
       /\ \A k \in 1..Len(g_log) : ~CleanAttempt(g_log[k])
       /\ g_sleeps = [k \in 1..Len(g_log) |-> k - 1]
       /\ g_i = Len(g_log)
  /\ (g_pc = "returned" /\ g_ret # <<>>) =>
       /\ CleanAttempt(g_log[Len(g_log)])
       /\ g_ret = <<g_log[Len(g_log)].text>>
       /\ Len(g_sleeps) = Len(g_log) - 1
  /\ (g_pc = "returned" /\ g_ret = <<>>) =>
       /\ Len(g_log) = g_retries + 1
       /\ ~CleanAttempt(g_log[Len(g_log)])
       /\ Len(g_sleeps) = g_retries + 1

C15_Witness ==
  /\ g_pc = "returned"
  /\ g_retries = 2
  /\ Len(g_log) = 3
  /\ g_log[1].raises # ""
  /\ g_log[2].status_code = 200
  /\ g_log[3].status_code = 404
  /\ g_ret = <<>>

C15_WitnessBody ==
  /\ g_pc = "returned"
  /\ g_retries = 2
  /\ Len(g_log) = 2
  /\ Contains(g_log[1].text, "CAPTCHA")
  /\ g_ret = <<"<html>page</html>">>

(***************************************************************************)
(* Properties of the order of the page fetches                             *)
(***************************************************************************)
\* scrape_listing_text alone: its fetches so far are the start of the plan
\* "per identifier the mobile page, then the desktop page"
C24_ExtractOrder == IsPrefix(fetch_log, FetchPlan(x_asins))

\* C24: in scrape_listing_text and in enrich_product_info the fetches made so
\* far are, identifier by identifier in the order of the argument, the
\* lightweight (mobile) page and then the full (desktop) page: no desktop
\* fetch of an identifier comes before its mobile fetch, and no fetch of the
\* next identifier before the fetches of this one
C24_LightweightFirst ==
  /\ IsPrefix(fetch_log, FetchPlan(x_asins))
  /\ IsPrefix(e_log, FetchPlan(e_asins))

\* what enrich_product_info does: per identifier the desktop page first, and
\* the mobile page after it only when the desktop page gave no title or no
\* rating
C24_EnrichOrder ==
  /\ \A i \in 1..Len(e_log) :
        /\ e_log[i][2] = "mobile" => i > 1 /\ e_log[i - 1] = <<e_log[i][1], "desktop">>
        /\ e_log[i][2] = "desktop" /\ i > 1 /\ e_log[i - 1][2] = "desktop"
             => /\ rows[Cardinality({j \in 1..(i - 1) : e_log[j][2] = "desktop"})].title # ""
                /\ rows[Cardinality({j \in 1..(i - 1) : e_log[j][2] = "desktop"})].rating # ""
  /\ LET desktops == SelectSeq(e_log, LAMBDA f : f[2] = "desktop")
     IN  /\ Len(desktops) <= Len(e_asins)
         /\ \A k \in 1..Len(desktops) : desktops[k][1] = e_asins[k]
         /\ e_pc = "done" => Len(desktops) = Len(e_asins) /\ Len(rows) = Len(e_asins)

\* a run of enrich_product_info over two identifiers: the first is complete
\* after the desktop page, the second needs the mobile page
C24_EnrichWitness ==
  /\ e_pc = "done"
  /\ Len(e_asins) = 2
  /\ e_log = <<<<e_asins[1], "desktop">>, <<e_asins[2], "desktop">>,
               <<e_asins[2], "mobile">>>>
  /\ rows[2].rating = "0"
  /\ rows[2].url = MOBILE_URL(Domain, e_asins[2])

(***************************************************************************)
(* Properties of SimpleRateLimiter.wait                                    *)
(***************************************************************************)
\* C25: a call of wait() during which no other call of wait() on the instance
\* ran returns at least the gap 1/qps after the return before it; so when all
\* calls are serialized any two consecutive returns are at least the gap apart
C25_SerializedGap ==
  \A i \in 2..Len(returns) :
     returns[i].alone => returns[i].at - returns[i - 1].at >= Gap

\* a serialized call slept and returned exactly the gap after the one before
\* it, and later two calls of two threads interleaved and returned less than
\* the gap apart
C25_Witness ==
  /\ Len(returns) = MaxCalls
  /\ returns[1].alone /\ returns[2].alone
  /\ returns[2].at - returns[1].at = Gap
  /\ ~returns[3].alone /\ ~returns[4].alone
  /\ returns[4].at - returns[3].at < Gap

\* two interleaved calls return at the same time
C25_WitnessRace ==
  \E i \in 2..Len(returns) :
     ~returns[i].alone /\ ~returns[i - 1].alone /\ returns[i].at = returns[i - 1].at

====
